---- MODULE Spec2Model ----
(***************************************************************************)
(* The tick-based combat engine of native_pulse/void_reckoning_combat      *)
(* (BattleEngine over BattleState), as driven through the bridge's         *)
(* RustCombatEngine.                                                       *)
(*                                                                         *)
(* Numbers.  The source computes in f32.  Here every f32 quantity is an    *)
(* integer: hp, shields, damage, armor, cooldowns, ranges, speeds and      *)
(* coordinates.  Products and quotients are computed as exact rationals    *)
(* (numerator and denominator) and truncated once, where the source        *)
(* stores the result.  Positions are drawn from the lattice line           *)
(* (3k, 4k), on which every distance is an integer multiple of 5, and      *)
(* speeds are multiples of 5, so that sqrt, atan2, cos and sin of the      *)
(* movement pass are exact in this domain.                                 *)
(*                                                                         *)
(* Option<u32> is a set with at most one element: {} is None, {t} is       *)
(* Some(t).                                                                *)
(*                                                                         *)
(* The armor of a unit alone is kept as an f32 of significand and exponent *)
(* (Flt), so that an armor beyond the integers of the model can be written *)
(* and the rounding of armor + 100.0 is that of the f32 addition.          *)
(*                                                                         *)
(* Fields of CombatUnit and Weapon that step() never reads (name,          *)
(* integrity, evasion, velocity, accuracy) are left out.                   *)
(***************************************************************************)
EXTENDS Integers, Sequences, FiniteSets, TLC

(***************************************************************************)
(* Bounds of the model                                                     *)
(***************************************************************************)
MaxUnits == 3
MaxTurn == 3
CellSize == 10
MaxEvents == 4

(***************************************************************************)
(* Program constants                                                       *)
(***************************************************************************)
DesiredRange == 20
MinSearchRadius == 50
ArmorScale == 100

(***************************************************************************)
(* Input domains                                                           *)
(***************************************************************************)
\* The id of the next unit: a driver numbers its units upward from 1 or
\* downward from MaxUnits.
NextIds(us) ==
    IF Len(us) = 0 THEN {1, MaxUnits}
    ELSE IF us[1].id = 1 THEN {Len(us) + 1}
    ELSE {MaxUnits - Len(us)}
Factions == {0, 1}
\* The random source yields variations between 90 and 110 percent.  The
\* streams of variations a tick may draw: all low, all high, or alternating.
RollStreams == {<<90, 90>>, <<105, 105>>, <<90, 105>>}
RollAt(stream, n) == stream[2 - (n % 2)]

Pos(k) == <<3 * k, 4 * k>>

\* The f32 m * 2^e.  e is 0 for a value below 2^24, which an f32 holds
\* exactly; for e > 0 the significand is normalised, 2^23 <= m < 2^24, so
\* that one unit of m is one unit in the last place of the value.
Flt(m, e) == <<m, e>>

RECURSIVE Pow2(_)
Pow2(e) == IF e = 0 THEN 1 ELSE 2 * Pow2(e - 1)

Wpn(t, r, d, c) ==
    [weapon_type |-> t, range |-> r, damage |-> d, cooldown |-> c]

\* The unit designs a driver passes to add_unit:
\* max_hp, shields_max, armor, cover_val, speed, weapons.
Husk ==
    [max_hp |-> 0, shields_max |-> 0, armor |-> Flt(0, 0), cover_val |-> 0,
     speed |-> 0, weapons |-> << >>]
Raider ==
    [max_hp |-> 20, shields_max |-> 0, armor |-> Flt(0, 0), cover_val |-> 0,
     speed |-> 10, weapons |-> << Wpn("Kinetic", 30, 20, 2) >>]
Bastion ==
    [max_hp |-> 30, shields_max |-> 10, armor |-> Flt(100, 0), cover_val |-> 1,
     speed |-> 0, weapons |-> << Wpn("Energy", 30, 20, 1),
                                 Wpn("Missile", 80, 10, 3) >>]

\* Where a driver deploys a unit of which design: <<k, design>>, for either
\* faction.
Deployments ==
    { <<13, Husk>>, <<0 - 5, Raider>>, <<0, Bastion>>, <<5, Bastion>> }

\* The designs of the units a driver builds itself and hands to
\* BattleEngine::add_unit.
Lancer ==
    [max_hp |-> 40, shields_max |-> 0, armor |-> Flt(0, 0), cover_val |-> 0,
     speed |-> 0, weapons |-> << Wpn("Energy", 30, 40, 1) >>]
Skirmisher ==
    [max_hp |-> 20, shields_max |-> 0, armor |-> Flt(0, 0), cover_val |-> 0,
     speed |-> 10, weapons |-> << Wpn("Beam", 30, 20, 1) >>]
Warden ==
    [max_hp |-> 50, shields_max |-> 10, armor |-> Flt(0, 0), cover_val |-> 0,
     speed |-> 0, weapons |-> << Wpn("Fighter", 30, 20, 2) >>]
Relic ==
    [max_hp |-> 5, shields_max |-> 10, armor |-> Flt(0, 0), cover_val |-> 0,
     speed |-> 0, weapons |-> << Wpn("Missile", 80, 10, 3) >>]

\* A defender with no weapons, of the given armor and shield capacity.
Bulwark(a, sm) ==
    [max_hp |-> 100, shields_max |-> sm, armor |-> a, cover_val |-> 0,
     speed |-> 0, weapons |-> << >>]

\* The armor of a defender: none, 100, and 2^32.
Armors == {Flt(0, 0), Flt(100, 0), Flt(Pow2(23), 9)}

\* The arguments of set_unit_cover and of mitigate_damage.
CoverVals == 0..4
CoverIds == 1..3
RawDamages == {30, 100}
DamageTypes == {"Kinetic", "Energy", "Explosive"}

\* The ids a driver asks the status of: those of the units above and one
\* that no unit carries.
QueryIds == 1..5

VARIABLES
    units,          \* BattleState.units: the roster, in insertion order
    turn,           \* BattleState.turn
    time_elapsed,   \* BattleState.time_elapsed
    op,             \* the operation that produced this state
    ret,            \* the value the last step() returned
    damage_events,  \* the damage events the last step() enqueued
    fired_weapons,  \* the (unit index, weapon index) pairs that fired in it
    applied,        \* the damage applications the last step() performed
    event_log,      \* BattleEngine.event_log: {} is None, {log} is Some(log)
    args,           \* the arguments of the last operation that records them
    status,         \* the value the last get_unit_status() returned
    mitigated,      \* the value the last mitigate_damage() returned
    current_context, \* BattleEngine.current_context
    run_id,         \* BattleState.run_id; 0 before it is first set
    uuids,          \* the number of uuids Uuid::new_v4 has handed out
    engines,       \* the BattleEngines that share event_log, when there are several
    graph,         \* GraphTopology: node_map with the terrain of each node, and the edges
    path,          \* the value the last find_path() returned: {} is None
    causal,        \* CausalGraph: events, parent_map and children_map
    chain          \* the outcome of the last get_causal_chain()

vars == <<units, turn, time_elapsed, op, ret, damage_events, fired_weapons,
          applied, event_log, args, status, mitigated, current_context,
          run_id, uuids, engines,
          graph, path, causal, chain>>

(***************************************************************************)
(* Helpers                                                                 *)
(***************************************************************************)
Abs(x) == IF x < 0 THEN 0 - x ELSE x
Sgn(x) == IF x < 0 THEN 0 - 1 ELSE IF x > 0 THEN 1 ELSE 0
Min(a, b) == IF a < b THEN a ELSE b
Max(a, b) == IF a > b THEN a ELSE b

\* Division as an f32-to-integer cast does it: toward zero.
TruncDiv(a, b) == Sgn(a) * Sgn(b) * (Abs(a) \div Abs(b))

RECURSIVE SqrtSearch(_, _, _)
SqrtSearch(n, lo, hi) ==
    IF lo >= hi THEN lo
    ELSE LET mid == (lo + hi + 1) \div 2
         IN  IF mid * mid <= n THEN SqrtSearch(n, mid, hi)
             ELSE SqrtSearch(n, lo, mid - 1)

\* f32::sqrt; exact on the squared distances of the lattice line.
Sqrt(n) == SqrtSearch(n, 0, n)

\* c / d rounded to the nearest integer, a tie to the even one, for c >= 0:
\* the rounding of the f32 operations.
RoundHalfEven(c, d) ==
    LET q == c \div d
        r == c % d
    IN  IF 2 * r > d THEN q + 1
        ELSE IF 2 * r = d THEN q + (q % 2)
        ELSE q

\* The f32 sum a + c of an f32 a and a small constant c >= 0: the exact sum
\* (m + c / 2^e) * 2^e rounded to a multiple of the unit in the last place
\* of a.  The sums of the model stay below the next power of two.
F32Add(a, c) == Flt(a[1] + RoundHalfEven(c, Pow2(a[2])), a[2])

(***************************************************************************)
(* lib.rs: CombatUnit, BattleState                                         *)
(***************************************************************************)
\* CombatUnit::new.  The cover of a new unit is written by the bridge's
\* add_unit before the unit reaches the roster.
CombatUnit_new(id, faction_idx, max_hp) ==
    [id |-> id, faction_idx |-> faction_idx,
     hp |-> max_hp, max_hp |-> max_hp,
     shields |-> 0, max_shields |-> 0, armor |-> Flt(0, 0), cover |-> "None",
     weapons |-> << >>, speed |-> 0,
     position |-> <<0, 0>>, target_id |-> {}, is_alive |-> TRUE]

\* Position in the roster of the first unit with this id, 0 when there is none
\* (units.iter().find(|u| u.id == id)).
IndexOf(us, id) ==
    IF \E i \in 1..Len(us) : us[i].id = id
    THEN CHOOSE i \in 1..Len(us) :
            /\ us[i].id = id
            /\ \A j \in 1..(i - 1) : us[j].id # id
    ELSE 0

\* BattleState::get_unit as an Option.
get_unit(us, id) ==
    IF IndexOf(us, id) = 0 THEN {} ELSE {us[IndexOf(us, id)]}

CoverOf(cover_val) ==
    CASE cover_val = 1 -> "Light"
      [] cover_val = 2 -> "Heavy"
      [] cover_val = 3 -> "Fortified"
      [] OTHER -> "None"

\* RustCombatEngine::add_unit builds the unit that is pushed on the roster.
BridgeUnit(id, faction_idx, k, d) ==
    [CombatUnit_new(id, faction_idx, d.max_hp) EXCEPT
        !.position = Pos(k),
        !.speed = d.speed,
        !.shields = d.shields_max,
        !.max_shields = d.shields_max,
        !.armor = d.armor,
        !.cover = CoverOf(d.cover_val),
        !.weapons = [w \in 1..Len(d.weapons) |->
                        [weapon_type |-> d.weapons[w].weapon_type,
                         range |-> d.weapons[w].range,
                         damage |-> d.weapons[w].damage,
                         cooldown |-> d.weapons[w].cooldown,
                         current_cooldown |-> 0]]]

\* RustCombatEngine::get_unit_status that finds no dead unit.
get_unit_status_LivingOnly(us, id) ==
    {<<u.hp, u.shields, u.is_alive>> : u \in {v \in get_unit(us, id) : v.is_alive}}

\* RustCombatEngine::get_unit_status: Some((hp, shields, is_alive)) or None.
get_unit_status(us, id) ==
    {<<u.hp, u.shields, u.is_alive>> : u \in get_unit(us, id)}

\* The defenders a driver builds: without shields, or with a capacity of 100
\* and a charge the driver sets.
Defenders ==
    {BridgeUnit(2, 0, 0, Bulwark(a, 0)) : a \in Armors}
    \cup {[BridgeUnit(2, 0, 0, Bulwark(a, 100)) EXCEPT !.shields = s] :
             a \in Armors, s \in {50, 100, 150}}

\* A defender, and a unit of the other side next to it.
DefenceRosters == {<<d, BridgeUnit(1, 1, 5, Bastion)>> : d \in Defenders}

\* The units of a battle that a driver fields itself, by id.  The target_id
\* of unit 2 names a unit that is not part of the battle.
ArenaUnits ==
    << BridgeUnit(1, 0, 5, Lancer),
       [BridgeUnit(2, 0, 0 - 6, Skirmisher) EXCEPT !.target_id = {9}],
       BridgeUnit(3, 1, 0, Warden),
       BridgeUnit(4, 1, 2, Relic) >>

\* The rosters of such a battle: two or more of the units, in any order.
ArenaRosters ==
    LET orders == UNION { [1..n -> DOMAIN ArenaUnits] : n \in 2..MaxUnits }
        distinct == {r \in orders : \A i, j \in DOMAIN r : r[i] = r[j] => i = j}
    IN  { [i \in DOMAIN r |-> ArenaUnits[r[i]]] : r \in distinct }

\* The rosters of the traced battles.
TraceRosters ==
    { <<ArenaUnits[1], ArenaUnits[3], ArenaUnits[4]>>,
      <<ArenaUnits[3], ArenaUnits[1], ArenaUnits[4]>>,
      <<ArenaUnits[2], ArenaUnits[3], ArenaUnits[4]>>,
      <<ArenaUnits[1], ArenaUnits[4]>>,
      <<ArenaUnits[1], BridgeUnit(3, 1, 12, Warden), BridgeUnit(4, 1, 13, Warden)>>,
      <<BridgeUnit(1, 0, 0, Skirmisher), BridgeUnit(2, 1, 5, Skirmisher)>>,
      <<BridgeUnit(1, 0, 0, Relic), BridgeUnit(2, 0, 2, Raider),
        BridgeUnit(3, 1, 3, Bastion), BridgeUnit(4, 0, 4, Warden)>>,
      <<BridgeUnit(1, 0, 0, Raider), BridgeUnit(2, 1, 5, Relic),
        BridgeUnit(3, 1, 12, Warden)>>,
      <<BridgeUnit(1, 0, 0 - 5, Raider), BridgeUnit(2, 1, 5, Bastion),
        BridgeUnit(3, 1, 13, Relic)>> }

\* The rosters of the engines that share a log.
SharedRosters ==
    { <<ArenaUnits[1], ArenaUnits[3], ArenaUnits[4]>>,
      <<ArenaUnits[1], ArenaUnits[4]>> }

\* The contexts the driver hands to set_correlation_context: a root context
\* and a child of it, with ids of the driver's own.
Contexts ==
    { [trace_id |-> 101, span_id |-> 102, parent_id |-> {}],
      [trace_id |-> 101, span_id |-> 103, parent_id |-> {102}] }

(***************************************************************************)
(* mechanics.rs                                                            *)
(***************************************************************************)
\* Weapon::calculate_damage: damage * variation, the variation given in
\* percent.
calculate_damage(weapon, roll) == TruncDiv(weapon.damage * roll, 100)

get_damage_type(weapon) ==
    CASE weapon.weapon_type = "Kinetic" -> "Kinetic"
      [] weapon.weapon_type = "Energy"  -> "Energy"
      [] weapon.weapon_type = "Missile" -> "Explosive"
      [] weapon.weapon_type = "Beam"    -> "Energy"
      [] weapon.weapon_type = "Fighter" -> "Kinetic"

\* MitigationFactor with armor set against Explosive damage as against
\* Kinetic damage.
MitigationFactor_ExplosiveArmored(unit, damage_type) ==
    CASE damage_type = "Kinetic" ->
            <<unit.armor[1], F32Add(unit.armor, ArmorScale)[1]>>
      [] damage_type = "Energy" ->
            IF unit.max_shields > 0
            THEN <<Max(unit.shields, 0), 2 * unit.max_shields>>
            ELSE <<0, 1>>
      [] damage_type = "Explosive" ->
            <<unit.armor[1], F32Add(unit.armor, ArmorScale)[1]>>

\* The mitigation factor as a fraction <<numerator, denominator>>.  For
\* Kinetic damage it is armor / (armor + 100.0): the sum has the exponent of
\* the armor, and the quotient is that of the two significands.
MitigationFactor(unit, damage_type) ==
    CASE damage_type = "Kinetic" ->
            <<unit.armor[1], F32Add(unit.armor, ArmorScale)[1]>>
      [] damage_type = "Energy" ->
            IF unit.max_shields > 0
            THEN <<Max(unit.shields, 0), 2 * unit.max_shields>>
            ELSE <<0, 1>>
      [] damage_type = "Explosive" -> <<0, 1>>

\* The cover mitigation in percent.
CoverMitigation(unit) ==
    CASE unit.cover = "None"      -> 0
      [] unit.cover = "Light"     -> 25
      [] unit.cover = "Heavy"     -> 50
      [] unit.cover = "Fortified" -> 75

\* MitigatedValue with the two mitigations added up: damage * (1 -
\* mitigation_factor - cover_mitigation).
MitigatedValue_Additive(unit, damage, damage_type) ==
    LET f == MitigationFactor(unit, damage_type)
        final_num == damage * ((f[2] - f[1]) * 100 - f[2] * CoverMitigation(unit))
        final_den == f[2] * 100
    IN  TruncDiv(final_num, final_den)

\* damage * (1 - mitigation_factor) * (1 - cover_mitigation), not below 0.
MitigatedValue(unit, damage, damage_type) ==
    LET f == MitigationFactor(unit, damage_type)
        final_num == damage * (f[2] - f[1]) * (100 - CoverMitigation(unit))
        final_den == f[2] * 100
    IN  TruncDiv(final_num, final_den)

mitigate_damage(unit, damage, damage_type) ==
    LET final_damage == MitigatedValue(unit, damage, damage_type)
    IN  IF final_damage < 0 THEN 0 ELSE final_damage

(***************************************************************************)
(* targeting.rs                                                            *)
(***************************************************************************)
DistSq(p, q) ==
    (q[1] - p[1]) * (q[1] - p[1]) + (q[2] - p[2]) * (q[2] - p[2])

\* IsCandidate without its test of the faction.
IsCandidate_AnyFaction(attacker, target) ==
    ~ ( \/ ~target.is_alive
        \/ target.id = attacker.id )

\* The validity test both target searches apply to a candidate.
IsCandidate(attacker, target) ==
    ~ ( \/ ~target.is_alive
        \/ target.id = attacker.id
        \/ target.faction_idx = attacker.faction_idx )

\* ScanTargets with <= for <: the last of the nearest enemies wins.
RECURSIVE ScanTargets_LastWins(_, _, _, _, _)
ScanTargets_LastWins(attacker, us, i, best, min_dist_sq) ==
    IF i > Len(us) THEN best
    ELSE LET target == us[i]
             dist_sq == DistSq(attacker.position, target.position)
         IN  IF ~ ( /\ target.is_alive
                    /\ target.id # attacker.id
                    /\ target.faction_idx # attacker.faction_idx )
             THEN ScanTargets_LastWins(attacker, us, i + 1, best, min_dist_sq)
             ELSE IF best = {} \/ dist_sq <= min_dist_sq
                  THEN ScanTargets_LastWins(attacker, us, i + 1, {target.id}, dist_sq)
                  ELSE ScanTargets_LastWins(attacker, us, i + 1, best, min_dist_sq)

\* The loop of find_best_target from roster position i on; best is the
\* Option best_target and min_dist_sq its squared distance (f32::MAX while
\* best is None: every squared distance of the model is below f32::MAX).
RECURSIVE ScanTargets(_, _, _, _, _)
ScanTargets(attacker, us, i, best, min_dist_sq) ==
    IF i > Len(us) THEN best
    ELSE LET target == us[i]
             dist_sq == DistSq(attacker.position, target.position)
         IN  IF ~IsCandidate(attacker, target)
             THEN ScanTargets(attacker, us, i + 1, best, min_dist_sq)
             ELSE IF best = {} \/ dist_sq < min_dist_sq
                  THEN ScanTargets(attacker, us, i + 1, {target.id}, dist_sq)
                  ELSE ScanTargets(attacker, us, i + 1, best, min_dist_sq)

find_best_target(attacker, us) == ScanTargets(attacker, us, 1, {}, 0)

\* SpatialHash::insert: the cell of a unit, each coordinate divided by the
\* cell size and cast to i32 (the cast rounds toward zero).
CellOf(unit, cell_size) ==
    <<TruncDiv(unit.position[1], cell_size), TruncDiv(unit.position[2], cell_size)>>

\* SpatialHash::build: cells[c] is the Vec of the ids of the living units
\* inserted under cell c, in roster order; a cell with no unit has no entry,
\* which reads as the empty sequence.
RECURSIVE CellIds(_, _, _, _)
CellIds(us, cell_size, c, i) ==
    IF i > Len(us) THEN << >>
    ELSE IF us[i].is_alive /\ CellOf(us[i], cell_size) = c
         THEN << us[i].id >> \o CellIds(us, cell_size, c, i + 1)
         ELSE CellIds(us, cell_size, c, i + 1)

SpatialHash_build(us, cell_size) ==
    [cell_size |-> cell_size,
     cells |-> [c \in {CellOf(us[i], cell_size) :
                          i \in {j \in 1..Len(us) : us[j].is_alive}} |->
                  CellIds(us, cell_size, c, 1)]]

\* self.cells.get(&(x, y)), an absent cell read as the empty sequence.
HashCell(hash, c) ==
    IF c \in DOMAIN hash.cells THEN hash.cells[c] ELSE << >>

\* The inner loop of get_nearby: the ids of the cells (x, y..=max_y).
RECURSIVE NearbyColumn(_, _, _, _)
NearbyColumn(hash, x, y, max_y) ==
    IF y > max_y THEN << >>
    ELSE HashCell(hash, <<x, y>>) \o NearbyColumn(hash, x, y + 1, max_y)

\* The outer loop of get_nearby: the columns x..=max_x.
RECURSIVE NearbyFrom(_, _, _, _, _)
NearbyFrom(hash, x, max_x, min_y, max_y) ==
    IF x > max_x THEN << >>
    ELSE NearbyColumn(hash, x, min_y, max_y)
            \o NearbyFrom(hash, x + 1, max_x, min_y, max_y)

\* SpatialHash::get_nearby: the ids of the cells min_x..=max_x by
\* min_y..=max_y, x outermost.
get_nearby(hash, pos, radius) ==
    LET min_x == TruncDiv(pos[1] - radius, hash.cell_size)
        max_x == TruncDiv(pos[1] + radius, hash.cell_size)
        min_y == TruncDiv(pos[2] - radius, hash.cell_size)
        max_y == TruncDiv(pos[2] + radius, hash.cell_size)
    IN  NearbyFrom(hash, min_x, max_x, min_y, max_y)

\* attacker.weapons.iter().map(|w| w.range).fold(0.0, f32::max)
RECURSIVE MaxRange(_, _)
MaxRange(weapons, w) ==
    IF w > Len(weapons) THEN 0
    ELSE Max(weapons[w].range, MaxRange(weapons, w + 1))

\* The loop of find_best_target_spatial over nearby_ids from position n on.
RECURSIVE ScanNearby(_, _, _, _, _, _)
ScanNearby(attacker, us, nearby_ids, n, best, min_dist_sq) ==
    IF n > Len(nearby_ids) THEN best
    ELSE LET found == get_unit(us, nearby_ids[n])
         IN  IF found = {}
             THEN ScanNearby(attacker, us, nearby_ids, n + 1, best, min_dist_sq)
             ELSE LET target == CHOOSE u \in found : TRUE
                      dist_sq == DistSq(attacker.position, target.position)
                  IN  IF ~IsCandidate(attacker, target)
                      THEN ScanNearby(attacker, us, nearby_ids, n + 1, best, min_dist_sq)
                      ELSE IF best = {} \/ dist_sq < min_dist_sq
                           THEN ScanNearby(attacker, us, nearby_ids, n + 1,
                                           {target.id}, dist_sq)
                           ELSE ScanNearby(attacker, us, nearby_ids, n + 1,
                                           best, min_dist_sq)

\* find_best_target_spatial that searches the range of the longest weapon,
\* without the minimum of the radius.
find_best_target_spatial_WeaponRange(attacker, us, hash) ==
    LET max_range == MaxRange(attacker.weapons, 1)
        nearby_ids == get_nearby(hash, attacker.position, max_range)
    IN  ScanNearby(attacker, us, nearby_ids, 1, {}, 0)

find_best_target_spatial(attacker, us, hash) ==
    LET max_range == MaxRange(attacker.weapons, 1)
        nearby_ids == get_nearby(hash, attacker.position,
                                 Max(max_range, MinSearchRadius))
    IN  ScanNearby(attacker, us, nearby_ids, 1, {}, 0)

(***************************************************************************)
(* engine.rs: the passes of BattleEngine::step                             *)
(***************************************************************************)
\* set_unit_cover that takes unit_id for a position in the roster.
set_unit_cover_ByIndex(us, unit_id, cover_val) ==
    IF unit_id \notin 1..Len(us) THEN us
    ELSE [us EXCEPT ![unit_id].cover =
            CASE cover_val = 1 -> "Light"
              [] cover_val = 2 -> "Heavy"
              [] cover_val = 3 -> "Fortified"
              [] OTHER -> "None"]

\* BattleEngine::set_unit_cover: the roster after the call.
set_unit_cover(us, unit_id, cover_val) ==
    IF IndexOf(us, unit_id) = 0 THEN us
    ELSE [us EXCEPT ![IndexOf(us, unit_id)].cover =
            CASE cover_val = 1 -> "Light"
              [] cover_val = 2 -> "Heavy"
              [] cover_val = 3 -> "Fortified"
              [] OTHER -> "None"]

\* MovedPosition with the default position (0, 0) for a target that is not in
\* the snapshot.
MovedPosition_DefaultTarget(unit, us) ==
    IF ~unit.is_alive THEN unit.position
    ELSE IF unit.speed <= 0 THEN unit.position
    ELSE IF unit.target_id = {} THEN unit.position
    ELSE LET tid == CHOOSE t \in unit.target_id : TRUE
             target_pos == IF IndexOf(us, tid) = 0 THEN <<0, 0>>
                           ELSE us[IndexOf(us, tid)].position
             dx == target_pos[1] - unit.position[1]
             dy == target_pos[2] - unit.position[2]
             dist == Sqrt(dx * dx + dy * dy)
         IN  IF dist > DesiredRange
             THEN LET move_dist == Min(unit.speed, dist - DesiredRange)
                  IN  IF move_dist > 0
                      THEN <<unit.position[1] + TruncDiv(move_dist * dx, dist),
                             unit.position[2] + TruncDiv(move_dist * dy, dist)>>
                      ELSE unit.position
             ELSE unit.position

\* MovedPosition without the test for a living unit.
MovedPosition_DeadMove(unit, us) ==
    IF unit.speed <= 0 THEN unit.position
    ELSE IF unit.target_id = {} THEN unit.position
    ELSE LET tid == CHOOSE t \in unit.target_id : TRUE
         IN  IF IndexOf(us, tid) = 0 THEN unit.position
             ELSE LET target_pos == us[IndexOf(us, tid)].position
                      dx == target_pos[1] - unit.position[1]
                      dy == target_pos[2] - unit.position[2]
                      dist == Sqrt(dx * dx + dy * dy)
                  IN  IF dist > DesiredRange
                      THEN LET move_dist == Min(unit.speed, dist - DesiredRange)
                           IN  IF move_dist > 0
                               THEN <<unit.position[1] + TruncDiv(move_dist * dx, dist),
                                      unit.position[2] + TruncDiv(move_dist * dy, dist)>>
                               ELSE unit.position
                      ELSE unit.position

\* PASS 0.  unit_positions is the snapshot of all positions by id; a unit
\* moves toward the snapshot position of its target.
MovedPosition(unit, us) ==
    IF ~unit.is_alive THEN unit.position
    ELSE IF unit.speed <= 0 THEN unit.position
    ELSE IF unit.target_id = {} THEN unit.position
    ELSE LET tid == CHOOSE t \in unit.target_id : TRUE
         IN  IF IndexOf(us, tid) = 0 THEN unit.position
             ELSE LET target_pos == us[IndexOf(us, tid)].position
                      dx == target_pos[1] - unit.position[1]
                      dy == target_pos[2] - unit.position[2]
                      dist == Sqrt(dx * dx + dy * dy)
                  IN  IF dist > DesiredRange
                      THEN LET move_dist == Min(unit.speed, dist - DesiredRange)
                           IN  IF move_dist > 0
                               THEN <<unit.position[1] + TruncDiv(move_dist * dx, dist),
                                      unit.position[2] + TruncDiv(move_dist * dy, dist)>>
                               ELSE unit.position
                      ELSE unit.position

\* The movement pass that writes each new position at once, so that the
\* units after it in the roster move toward it.
RECURSIVE MoveInPlace(_, _)
MoveInPlace(us, i) ==
    IF i > Len(us) THEN us
    ELSE MoveInPlace([us EXCEPT ![i].position = MovedPosition(us[i], us)], i + 1)

MovementPass_InPlace(us) == MoveInPlace(us, 1)

\* The movement pass run after the targeting: each unit moves toward the
\* target the targeting pass would give it.
MovementPass_AfterTargeting(us) ==
    [i \in 1..Len(us) |->
        [us[i] EXCEPT !.position =
            MovedPosition([us[i] EXCEPT !.target_id =
                              IF ~us[i].is_alive THEN us[i].target_id
                              ELSE IF us[i].target_id = {}
                                      \/ \E j \in 1..Len(us) :
                                            /\ us[j].id \in us[i].target_id
                                            /\ ~us[j].is_alive
                                   THEN find_best_target(us[i], us)
                                   ELSE us[i].target_id], us)]]

MovementPass(us) ==
    [i \in 1..Len(us) |-> [us[i] EXCEPT !.position = MovedPosition(us[i], us)]]

\* needs_target that asks for a new target only when the unit names none
\* or a unit that is not in the roster.
needs_target_AbsentOnly(unit, us) ==
    IF unit.target_id = {} THEN TRUE
    ELSE LET tid == CHOOSE t \in unit.target_id : TRUE
         IN  IndexOf(us, tid) = 0

\* needs_target that asks for a new target in every tick.
needs_target_EveryTick(unit, us) == TRUE

\* PASS 1.  A living unit looks for a target when it has none, or when the
\* unit it names is not in the roster or is not alive.
needs_target(unit, us) ==
    IF unit.target_id = {} THEN TRUE
    ELSE LET tid == CHOOSE t \in unit.target_id : TRUE
         IN  IF IndexOf(us, tid) = 0 THEN TRUE
             ELSE ~us[IndexOf(us, tid)].is_alive

NewTarget(unit, us) ==
    IF ~unit.is_alive THEN unit.target_id
    ELSE IF needs_target(unit, us)
         THEN LET found == find_best_target(unit, us)
              IN  IF found # {} THEN found ELSE unit.target_id
         ELSE unit.target_id

TargetingPass(us) ==
    [i \in 1..Len(us) |-> [us[i] EXCEPT !.target_id = NewTarget(us[i], us)]]

\* PASS 2.  Whether weapon w_idx of unit i fires in this tick.
\* Fires without the test of the range.
Fires_AnyRange(us, i, w_idx) ==
    LET attacker == us[i]
    IN  IF ~attacker.is_alive \/ attacker.target_id = {} THEN FALSE
        ELSE LET tid == CHOOSE t \in attacker.target_id : TRUE
             IN  IF IndexOf(us, tid) = 0 THEN FALSE
                 ELSE attacker.weapons[w_idx].current_cooldown <= 0

Fires(us, i, w_idx) ==
    LET attacker == us[i]
    IN  IF ~attacker.is_alive \/ attacker.target_id = {} THEN FALSE
        ELSE LET tid == CHOOSE t \in attacker.target_id : TRUE
             IN  IF IndexOf(us, tid) = 0 THEN FALSE
                 ELSE LET target == us[IndexOf(us, tid)]
                          dx == target.position[1] - attacker.position[1]
                          dy == target.position[2] - attacker.position[2]
                          dist == Sqrt(dx * dx + dy * dy)
                          weapon == attacker.weapons[w_idx]
                      IN  IF dist > weapon.range THEN FALSE
                          ELSE weapon.current_cooldown <= 0

\* FiredFrom that goes on to the next unit once a weapon of a unit has fired.
RECURSIVE FiredFrom_OneWeaponPerUnit(_, _, _)
FiredFrom_OneWeaponPerUnit(us, i, w_idx) ==
    IF i > Len(us) THEN << >>
    ELSE IF w_idx > Len(us[i].weapons) THEN FiredFrom_OneWeaponPerUnit(us, i + 1, 1)
    ELSE IF Fires(us, i, w_idx)
         THEN << <<i, w_idx>> >> \o FiredFrom_OneWeaponPerUnit(us, i + 1, 1)
         ELSE FiredFrom_OneWeaponPerUnit(us, i, w_idx + 1)

\* fired_weapons: the (unit index, weapon index) pairs in the order of the
\* scan, units first and then each unit's weapons.
RECURSIVE FiredFrom(_, _, _)
FiredFrom(us, i, w_idx) ==
    IF i > Len(us) THEN << >>
    ELSE IF w_idx > Len(us[i].weapons) THEN FiredFrom(us, i + 1, 1)
    ELSE IF Fires(us, i, w_idx)
         THEN << <<i, w_idx>> >> \o FiredFrom(us, i, w_idx + 1)
         ELSE FiredFrom(us, i, w_idx + 1)

AttackPass(us) == FiredFrom(us, 1, 1)

\* damage_events: one event per fired weapon, its amount rolled with the
\* n-th value of the random sequence.  attacker is the roster index of the
\* firing unit, which the source's tuple (tid, dmg, dtype) does not carry.
DamageEvents(us, fired, rolls) ==
    [n \in 1..Len(fired) |->
        LET attacker == us[fired[n][1]]
            weapon == attacker.weapons[fired[n][2]]
        IN  [attacker |-> fired[n][1],
             target_id |-> CHOOSE t \in attacker.target_id : TRUE,
             amount |-> calculate_damage(weapon, rolls[n]),
             dtype |-> get_damage_type(weapon)]]

\* The resets that make up for the cooldown pass of the same tick: a fired
\* weapon is set to its cooldown and one more.
ResetCooldowns_AndOne(us, fired) ==
    [i \in 1..Len(us) |->
        [us[i] EXCEPT !.weapons =
            [w \in 1..Len(us[i].weapons) |->
                IF \E n \in 1..Len(fired) : fired[n] = <<i, w>>
                THEN [us[i].weapons[w] EXCEPT
                        !.current_cooldown = us[i].weapons[w].cooldown + 1]
                ELSE us[i].weapons[w]]]]

\* "Apply cooldown resets".
ResetCooldowns(us, fired) ==
    [i \in 1..Len(us) |->
        [us[i] EXCEPT !.weapons =
            [w \in 1..Len(us[i].weapons) |->
                IF \E n \in 1..Len(fired) : fired[n] = <<i, w>>
                THEN [us[i].weapons[w] EXCEPT
                        !.current_cooldown = us[i].weapons[w].cooldown]
                ELSE us[i].weapons[w]]]]

\* DamagedUnit with the carry-over of the shields subtracted from hp, not
\* added to it.
DamagedUnit_CarrySign(target, amount, dtype) ==
    LET actual_loss == mitigate_damage(target, amount, dtype)
        hit == IF target.shields > 0 /\ dtype = "Energy"
               THEN LET s == target.shields - actual_loss
                    IN  IF s < 0
                        THEN [target EXCEPT !.hp = target.hp - s, !.shields = 0]
                        ELSE [target EXCEPT !.shields = s]
               ELSE [target EXCEPT !.hp = target.hp - actual_loss]
    IN  IF hit.hp <= 0
        THEN [hit EXCEPT !.is_alive = FALSE, !.hp = 0]
        ELSE hit

\* ApplyToResources that takes the whole of an overflowing hit from hp.
ApplyToResources_WholeToHp(target, amount, dtype) ==
    LET actual_loss == mitigate_damage(target, amount, dtype)
    IN  IF target.shields > 0 /\ dtype = "Energy"
        THEN LET s == target.shields - actual_loss
             IN  IF s < 0
                 THEN [target EXCEPT !.hp = target.hp - actual_loss, !.shields = 0]
                 ELSE [target EXCEPT !.shields = s]
        ELSE [target EXCEPT !.hp = target.hp - actual_loss]

\* ApplyToResources that takes a hit of any damage type from the shields
\* while they are up.
ApplyToResources_ShieldsFirst(target, amount, dtype) ==
    LET actual_loss == mitigate_damage(target, amount, dtype)
    IN  IF target.shields > 0
        THEN LET s == target.shields - actual_loss
             IN  IF s < 0
                 THEN [target EXCEPT !.hp = target.hp + s, !.shields = 0]
                 ELSE [target EXCEPT !.shields = s]
        ELSE [target EXCEPT !.hp = target.hp - actual_loss]

\* "Simple HP/Shield logic": the mitigated damage taken from the shields or
\* from hp, before the test for death.
ApplyToResources(target, amount, dtype) ==
    LET actual_loss == mitigate_damage(target, amount, dtype)
    IN  IF target.shields > 0 /\ dtype = "Energy"
        THEN LET s == target.shields - actual_loss
             IN  IF s < 0
                 THEN [target EXCEPT !.hp = target.hp + s, !.shields = 0]
                 ELSE [target EXCEPT !.shields = s]
        ELSE [target EXCEPT !.hp = target.hp - actual_loss]

\* PASS 3, one damage event applied to its target.
DamagedUnit(target, amount, dtype) ==
    LET hit == ApplyToResources(target, amount, dtype)
    IN  IF hit.hp <= 0
        THEN [hit EXCEPT !.is_alive = FALSE, !.hp = 0]
        ELSE hit

\* ApplyDamage without the test for a living target.
RECURSIVE ApplyDamage_DeadTargets(_, _, _, _)
ApplyDamage_DeadTargets(us, events, n, log) ==
    IF n > Len(events) THEN [units |-> us, applied |-> log]
    ELSE LET e == events[n]
             t == IndexOf(us, e.target_id)
         IN  IF t = 0 THEN ApplyDamage_DeadTargets(us, events, n + 1, log)
             ELSE LET after == DamagedUnit(us[t], e.amount, e.dtype)
                      entry == [event |-> n, target_id |-> e.target_id,
                                dtype |-> e.dtype,
                                actual_loss |->
                                    mitigate_damage(us[t], e.amount, e.dtype),
                                hp_before |-> us[t].hp,
                                hp_applied |->
                                    ApplyToResources(us[t], e.amount, e.dtype).hp,
                                hp_after |-> after.hp,
                                shields_before |-> us[t].shields,
                                shields_after |-> after.shields,
                                destroyed |-> ~after.is_alive]
                  IN  ApplyDamage_DeadTargets([us EXCEPT ![t] = after], events,
                                              n + 1, Append(log, entry))

\* ApplyDamage that drops the events of an attacker that is no longer alive
\* when its event comes up.
RECURSIVE ApplyDamage_LivingAttackers(_, _, _, _)
ApplyDamage_LivingAttackers(us, events, n, log) ==
    IF n > Len(events) THEN [units |-> us, applied |-> log]
    ELSE LET e == events[n]
             t == IndexOf(us, e.target_id)
         IN  IF t = 0 THEN ApplyDamage_LivingAttackers(us, events, n + 1, log)
             ELSE IF ~us[t].is_alive \/ ~us[e.attacker].is_alive
             THEN ApplyDamage_LivingAttackers(us, events, n + 1, log)
             ELSE LET after == DamagedUnit(us[t], e.amount, e.dtype)
                      entry == [event |-> n, target_id |-> e.target_id,
                                dtype |-> e.dtype,
                                actual_loss |->
                                    mitigate_damage(us[t], e.amount, e.dtype),
                                hp_before |-> us[t].hp,
                                hp_applied |->
                                    ApplyToResources(us[t], e.amount, e.dtype).hp,
                                hp_after |-> after.hp,
                                shields_before |-> us[t].shields,
                                shields_after |-> after.shields,
                                destroyed |-> ~after.is_alive]
                  IN  ApplyDamage_LivingAttackers([us EXCEPT ![t] = after], events,
                                                  n + 1, Append(log, entry))

\* ApplyDamage that takes the events from the back of the queue to its front.
RECURSIVE ApplyDamage_BackToFront(_, _, _, _)
ApplyDamage_BackToFront(us, events, n, log) ==
    IF n > Len(events) THEN [units |-> us, applied |-> log]
    ELSE LET m == Len(events) + 1 - n
             e == events[m]
             t == IndexOf(us, e.target_id)
         IN  IF t = 0 THEN ApplyDamage_BackToFront(us, events, n + 1, log)
             ELSE IF ~us[t].is_alive THEN ApplyDamage_BackToFront(us, events, n + 1, log)
             ELSE LET after == DamagedUnit(us[t], e.amount, e.dtype)
                      entry == [event |-> m, target_id |-> e.target_id,
                                dtype |-> e.dtype,
                                actual_loss |->
                                    mitigate_damage(us[t], e.amount, e.dtype),
                                hp_before |-> us[t].hp,
                                hp_applied |->
                                    ApplyToResources(us[t], e.amount, e.dtype).hp,
                                hp_after |-> after.hp,
                                shields_before |-> us[t].shields,
                                shields_after |-> after.shields,
                                destroyed |-> ~after.is_alive]
                  IN  ApplyDamage_BackToFront([us EXCEPT ![t] = after], events,
                                              n + 1, Append(log, entry))

\* PASS 3.  The events are applied in queue order; an event whose target is
\* not in the roster or not alive is dropped.  The result is the roster and
\* the log of the applications made: hp_applied is the hp after the damage
\* was taken from the resources, hp_after the hp after the test for death.
RECURSIVE ApplyDamage(_, _, _, _)
ApplyDamage(us, events, n, log) ==
    IF n > Len(events) THEN [units |-> us, applied |-> log]
    ELSE LET e == events[n]
             t == IndexOf(us, e.target_id)
         IN  IF t = 0 THEN ApplyDamage(us, events, n + 1, log)
             ELSE IF ~us[t].is_alive THEN ApplyDamage(us, events, n + 1, log)
             ELSE LET after == DamagedUnit(us[t], e.amount, e.dtype)
                      entry == [event |-> n, target_id |-> e.target_id,
                                dtype |-> e.dtype,
                                actual_loss |->
                                    mitigate_damage(us[t], e.amount, e.dtype),
                                hp_before |-> us[t].hp,
                                hp_applied |->
                                    ApplyToResources(us[t], e.amount, e.dtype).hp,
                                hp_after |-> after.hp,
                                shields_before |-> us[t].shields,
                                shields_after |-> after.shields,
                                destroyed |-> ~after.is_alive]
                  IN  ApplyDamage([us EXCEPT ![t] = after], events, n + 1,
                                  Append(log, entry))

\* shared: CorrelationContext.  An id is a number: the n-th uuid that
\* Uuid::new_v4 hands out is n, which makes every uuid differ from the ones
\* before it, and the ids a caller writes into a context of its own are
\* numbers above 100.  parent_id is an Option: a set of at most one id.
\* n is the number of uuids handed out so far.
CorrelationContext_new(n) ==
    [trace_id |-> n + 1, span_id |-> n + 2, parent_id |-> {}]

\* child() that hands on the parent of the context it is called on.
child_SameParent(context, n) ==
    [trace_id |-> context.trace_id, span_id |-> n + 1,
     parent_id |-> context.parent_id]

\* CorrelationContext::child.
child(context, n) ==
    [trace_id |-> context.trace_id, span_id |-> n + 1,
     parent_id |-> {context.span_id}]

\* EventLog::add that writes at the index it read before it took the lock:
\* the event takes the place of the last one.
EventLog_add_Overwrite(events, event) ==
    IF events = << >> THEN <<event>>
    ELSE [events EXCEPT ![Len(events)] = event]

\* EventLog::add: the push is made with the mutex held, so that it is one
\* step.  A poisoned mutex would drop the event; no code panics with the lock
\* held, so the lock is never poisoned.
EventLog_add(events, event) == Append(events, event)

\* The event a death emits: Event::new(Info, "Combat", "Unit {target_id}
\* destroyed by Unit Unknown", child context, None).  The timestamp of the
\* event is left out.
DestructionEvent(target_id, context) ==
    [severity |-> "Info", category |-> "Combat",
     message |-> [destroyed |-> target_id, by |-> "Unknown"],
     context |-> context, data |-> {}]

\* DestructionEvents that emits an event for every hit, lethal or not.
DestructionEvents_EveryHit(log, context, n) ==
    [k \in 1..Len(log) |->
        DestructionEvent(log[k].target_id, child(context, n + k - 1))]

\* The events the damage pass hands to EventLog::add, in the order of the
\* deaths: one for each application that destroyed its target, each with a
\* child of the context of the engine; n uuids were handed out before.
DestructionEvents(log, context, n) ==
    LET deaths == SelectSeq(log, LAMBDA e : e.destroyed)
    IN  [k \in 1..Len(deaths) |->
            DestructionEvent(deaths[k].target_id, child(context, n + k - 1))]

\* The cooldown pass that decrements every cooldown, positive or not.
CooldownPass_NoFloor(us) ==
    [i \in 1..Len(us) |->
        [us[i] EXCEPT !.weapons =
            [w \in 1..Len(us[i].weapons) |->
                [us[i].weapons[w] EXCEPT
                    !.current_cooldown = us[i].weapons[w].current_cooldown - 1]]]]

\* PASS 4.
CooldownPass(us) ==
    [i \in 1..Len(us) |->
        [us[i] EXCEPT !.weapons =
            [w \in 1..Len(us[i].weapons) |->
                IF us[i].weapons[w].current_cooldown > 0
                THEN [us[i].weapons[w] EXCEPT
                        !.current_cooldown = us[i].weapons[w].current_cooldown - 1]
                ELSE us[i].weapons[w]]]]

\* The factions that still have a living unit.
LivingFactions(us) == {us[i].faction_idx : i \in {j \in 1..Len(us) : us[j].is_alive}}

\* StepResult that asks for any living unit, as the comment "units > 0" has it.
StepResult_AnyAlive(us) == Cardinality(LivingFactions(us)) > 0

StepResult(us) == Cardinality(LivingFactions(us)) > 1

\* BattleEngine::step as a function of the roster: the roster after a tick
\* in which the n-th weapon to fire, weapon w of the unit with this id, rolls
\* the variation RollAt(stream, id + w) if by_pair and RollAt(stream, n) if
\* not.
StepUnits(us, stream, by_pair) ==
    LET targeted == TargetingPass(MovementPass(us))
        fired == AttackPass(targeted)
        rolls == [n \in 1..Len(fired) |->
                    IF by_pair
                    THEN RollAt(stream, targeted[fired[n][1]].id + fired[n][2])
                    ELSE RollAt(stream, n)]
        events == DamageEvents(targeted, fired, rolls)
    IN  CooldownPass(ApplyDamage(ResetCooldowns(targeted, fired), events, 1, << >>).units)

(***************************************************************************)
(* pathfinder: GraphTopology.  A cost is a number and F32Infinity is       *)
(* f32::INFINITY: a sum with it is it.  The weights of the edges are not   *)
(* negative.                                                               *)
(***************************************************************************)
F32Infinity == 1000000

PathAdd(a, b) == IF a = F32Infinity \/ b = F32Infinity THEN F32Infinity ELSE a + b

\* The systems a driver adds as nodes and the terrains it gives them, the
\* edges it adds, and the ends and profiles it asks paths for; "E" is never
\* added.
NodeIds == {"B", "C"}
QueryStarts == {"A", "D", "E"}
QueryEnds == {"A", "C", "D", "E"}
TerrainStrs == {"Water", "Mountain"}
Routes ==
    { [from |-> "A", to |-> "B", weight |-> 10],
      [from |-> "B", to |-> "C", weight |-> 20],
      [from |-> "A", to |-> "C", weight |-> 100],
      [from |-> "C", to |-> "D", weight |-> 10],
      [from |-> "A", to |-> "D", weight |-> 40] }
Profiles == {"None", "Ground", "Hover"}

\* GraphTopology::new.
GraphTopology_new == [nodes |-> << >>, edges |-> {}]

\* GraphTopology::add_node: the terrain of a node that exists is kept.
add_node(g, id, terrain_str) ==
    IF id \in DOMAIN g.nodes THEN g
    ELSE [g EXCEPT !.nodes =
            (id :> (IF terrain_str \in {"Mountain", "Water", "Forest", "Plains"}
                    THEN terrain_str ELSE "Space")) @@ g.nodes]

\* GraphTopology::add_edge.  An edge added a second time stands in the graph
\* twice; the two are one element of edges, which changes no path and no
\* cost.
add_edge(g, from_id, to_id, weight) ==
    LET with_nodes == add_node(add_node(g, from_id, "None"), to_id, "None")
    IN  [with_nodes EXCEPT !.edges = with_nodes.edges
            \cup {[from |-> from_id, to |-> to_id, weight |-> weight]}]

\* The closure edge_cost of find_path; a profile_str other than "Ground" and
\* "Hover" is the profile Space.
edge_cost(g, e, profile) ==
    LET terrain == g.nodes[e.to]
    IN  IF profile = "Ground"
        THEN IF terrain = "Mountain" THEN e.weight * 2
             ELSE IF terrain = "Water" THEN F32Infinity
             ELSE IF terrain = "Forest" THEN (e.weight * 3) \div 2
             ELSE e.weight
        ELSE IF profile = "Hover"
        THEN IF terrain = "Mountain" THEN e.weight * 2 ELSE e.weight
        ELSE e.weight

\* PathTracker::reconstruct_path_to: the predecessors from last back to the
\* start, reversed.
RECURSIVE reconstruct_path_to(_, _)
reconstruct_path_to(came_from, last) ==
    IF last \in DOMAIN came_from
    THEN Append(reconstruct_path_to(came_from, came_from[last]), last)
    ELSE <<last>>

\* The cheapest cost at which an edge from node reaches next.
Relaxed(g, node, node_score, next, profile) ==
    LET costs == {PathAdd(node_score, edge_cost(g, e, profile)) :
                     e \in {x \in g.edges : x.from = node /\ x.to = next}}
    IN  CHOOSE c \in costs : \A d \in costs : c <= d

\* astar that takes any entry of visit_next, not one of the least score.
RECURSIVE astar_AnyOrder(_, _, _, _, _, _, _)
astar_AnyOrder(g, end_idx, profile, visit_next, scores, estimate_scores, came_from) ==
    IF visit_next = {} THEN { << >> }
    ELSE UNION {
           LET node == h[2]
               rest == visit_next \ {h}
           IN  IF node = end_idx
               THEN { <<scores[node], reconstruct_path_to(came_from, node)>> }
               ELSE IF node \in DOMAIN estimate_scores
                       /\ estimate_scores[node] <= h[1]
               THEN astar_AnyOrder(g, end_idx, profile, rest, scores,
                                   estimate_scores, came_from)
               ELSE LET better ==
                            {next \in {e.to : e \in {x \in g.edges : x.from = node}} :
                                next \notin DOMAIN scores
                                \/ Relaxed(g, node, scores[node], next, profile)
                                      < scores[next]}
                        new_scores ==
                            [next \in better |->
                                Relaxed(g, node, scores[node], next, profile)]
                    IN  astar_AnyOrder(g, end_idx, profile,
                              rest \cup {<<new_scores[next], next>> : next \in better},
                              new_scores @@ scores,
                              (node :> h[1]) @@ estimate_scores,
                              [next \in better |-> node] @@ came_from)
           : h \in visit_next }

\* petgraph::algo::astar with the estimate 0, as find_path calls it: the loop
\* over visit_next, a heap of <<score, node>>.  Which of the entries of the
\* least score the heap hands out is not fixed, so the value is the set of
\* the results of every order: <<cost, path>>, or << >> for None.
RECURSIVE astar(_, _, _, _, _, _, _)
astar(g, end_idx, profile, visit_next, scores, estimate_scores, came_from) ==
    IF visit_next = {} THEN { << >> }
    ELSE LET least == CHOOSE h \in visit_next :
                         \A k \in visit_next : h[1] <= k[1]
         IN  UNION {
               LET node == h[2]
                   rest == visit_next \ {h}
               IN  IF node = end_idx
                   THEN { <<scores[node], reconstruct_path_to(came_from, node)>> }
                   ELSE IF node \in DOMAIN estimate_scores
                           /\ estimate_scores[node] <= h[1]
                   THEN astar(g, end_idx, profile, rest, scores,
                              estimate_scores, came_from)
                   ELSE LET better ==
                                {next \in {e.to : e \in {x \in g.edges : x.from = node}} :
                                    next \notin DOMAIN scores
                                    \/ Relaxed(g, node, scores[node], next, profile)
                                          < scores[next]}
                            new_scores ==
                                [next \in better |->
                                    Relaxed(g, node, scores[node], next, profile)]
                        IN  astar(g, end_idx, profile,
                                  rest \cup {<<new_scores[next], next>> : next \in better},
                                  new_scores @@ scores,
                                  (node :> h[1]) @@ estimate_scores,
                                  [next \in better |-> node] @@ came_from)
               : h \in {k \in visit_next : k[1] = least[1]} }

\* find_path that hands on whatever astar found.
find_path_AnyCost(g, start_id, end_id, profile_str) ==
    IF start_id \notin DOMAIN g.nodes \/ end_id \notin DOMAIN g.nodes THEN { {} }
    ELSE { IF found = << >> THEN {}
           ELSE {[path |-> found[2], cost |-> found[1]]} :
           found \in astar(g, end_id, profile_str, {<<0, start_id>>},
                           (start_id :> 0), << >>, << >>) }

\* GraphTopology::find_path: the set of the values it can return, each an
\* Option: {} is None and {[path, cost]} is Some((path, cost)).
find_path(g, start_id, end_id, profile_str) ==
    IF start_id \notin DOMAIN g.nodes \/ end_id \notin DOMAIN g.nodes THEN { {} }
    ELSE { IF found = << >> THEN {}
           ELSE IF found[1] = F32Infinity THEN {}
           ELSE {[path |-> found[2], cost |-> found[1]]} :
           found \in astar(g, end_id, profile_str, {<<0, start_id>>},
                           (start_id :> 0), << >>, << >>) }

(***************************************************************************)
(* shared: CausalGraph.  A HashMap is a function on the set of its keys.   *)
(***************************************************************************)
\* An event as a subsystem logs it, told from the others by its context.
TraceEvent(span_id, parent_id) ==
    [severity |-> "Info", category |-> "Combat",
     message |-> [destroyed |-> span_id, by |-> "Unknown"],
     context |-> [trace_id |-> 101, span_id |-> span_id, parent_id |-> parent_id],
     data |-> {}]

\* The events a driver loads into a graph: spans 1 to 3, with and without a
\* parent, among them an event that names itself as its parent.
LoadedEvents ==
    { TraceEvent(1, {}), TraceEvent(1, {2}), TraceEvent(1, {1}),
      TraceEvent(2, {}), TraceEvent(2, {1}), TraceEvent(3, {2}) }

SpanIds == 1..4

\* CausalGraph::new.
CausalGraph_new == [events |-> << >>, parent_map |-> << >>, children_map |-> << >>]

\* CausalGraph::add_event.  An event without a parent leaves parent_map as it
\* is, also when the map holds a parent for its span.
add_event(g, event) ==
    LET span_id == event.context.span_id
    IN  [events |-> (span_id :> event) @@ g.events,
         parent_map |->
            IF event.context.parent_id = {} THEN g.parent_map
            ELSE (span_id :> CHOOSE q \in event.context.parent_id : TRUE)
                     @@ g.parent_map,
         children_map |->
            IF event.context.parent_id = {} THEN g.children_map
            ELSE LET p == CHOOSE q \in event.context.parent_id : TRUE
                 IN  (p :> (IF p \in DOMAIN g.children_map
                            THEN Append(g.children_map[p], span_id)
                            ELSE <<span_id>>)) @@ g.children_map]

\* The number of entries of the lists of children_map: one for each add_event
\* of an event with a parent.
RECURSIVE SumLen(_, _)
SumLen(f, keys) ==
    IF keys = {} THEN 0
    ELSE LET k == CHOOSE x \in keys : TRUE
         IN  Len(f[k]) + SumLen(f, keys \ {k})

ChildLinks(g) == SumLen(g.children_map, DOMAIN g.children_map)

\* The loop of get_causal_chain from current_id on, with the chain pushed so
\* far, target first.  The loop has no state but current_id and the chain, so
\* it comes to an id a second time exactly when it never ends: returns is
\* FALSE then.  visited is the set of the ids the loop has been at.
RECURSIVE CausalChainLoop(_, _, _, _)
CausalChainLoop(g, current_id, chain_so_far, visited) ==
    IF current_id \in visited THEN [returns |-> FALSE, events |-> << >>]
    ELSE IF current_id \notin DOMAIN g.events
    THEN [returns |-> TRUE, events |-> chain_so_far]
    ELSE LET pushed == Append(chain_so_far, g.events[current_id])
         IN  IF current_id \in DOMAIN g.parent_map
             THEN CausalChainLoop(g, g.parent_map[current_id], pushed,
                                  visited \cup {current_id})
             ELSE [returns |-> TRUE, events |-> pushed]

\* Vec::reverse.
Reverse(seq) == [k \in 1..Len(seq) |-> seq[Len(seq) + 1 - k]]

\* CausalGraph::get_causal_chain.
get_causal_chain(g, span_id) ==
    LET walked == CausalChainLoop(g, span_id, << >>, {})
    IN  [walked EXCEPT !.events = Reverse(walked.events)]

\* self.children_map.get(&id), an absent list read as the empty one.
ChildrenOf(g, id) ==
    IF id \in DOMAIN g.children_map THEN g.children_map[id] ELSE << >>

\* The loop of get_consequences on the queue, with the consequences pushed so
\* far.  An entry of the queue is an id with its trail: the ids through which
\* the loop has come to it.  The loop keeps no record of the ids it has been
\* at, so a child with an event that is on the trail of its parent, or is the
\* parent, is queued again and again and the loop never ends: returns is
\* FALSE then.
RECURSIVE ConsequencesLoop(_, _, _)
ConsequencesLoop(g, queue, consequences) ==
    IF queue = << >> THEN [returns |-> TRUE, events |-> consequences]
    ELSE LET id == Head(queue)[1]
             trail == Head(queue)[2] \cup {id}
             children == ChildrenOf(g, id)
             found == SelectSeq(children, LAMBDA c : c \in DOMAIN g.events)
         IN  IF \E n \in 1..Len(found) : found[n] \in trail
             THEN [returns |-> FALSE, events |-> << >>]
             ELSE ConsequencesLoop(
                      g,
                      Tail(queue) \o [n \in 1..Len(found) |-> <<found[n], trail>>],
                      consequences \o [n \in 1..Len(found) |-> g.events[found[n]]])

\* CausalGraph::get_consequences.
get_consequences(g, span_id) == ConsequencesLoop(g, << <<span_id, {}>> >>, << >>)

(***************************************************************************)
(* The operations                                                          *)
(***************************************************************************)
Init ==
    /\ units = << >>
    /\ turn = 0
    /\ time_elapsed = 0
    /\ op = "new"
    /\ ret = FALSE
    /\ damage_events = << >>
    /\ fired_weapons = << >>
    /\ applied = << >>
    /\ event_log = {}
    /\ args = << >>
    /\ status = {}
    /\ mitigated = 0
    /\ current_context = CorrelationContext_new(0)
    /\ run_id = 0
    /\ uuids = 2
    /\ engines = << >>
    /\ graph = GraphTopology_new
    /\ path = {}
    /\ causal = CausalGraph_new
    /\ chain = [returns |-> TRUE, events |-> << >>]

\* RustCombatEngine::add_unit -> BattleEngine::add_unit -> BattleState::add_unit.
\* The ids of a roster are unique (a precondition on the caller), and the
\* driver populates the roster before it starts to step.
AddUnit ==
    /\ Len(units) < MaxUnits
    /\ turn = 0
    /\ \E id \in NextIds(units), f \in Factions, kd \in Deployments :
          /\ \A i \in 1..Len(units) : units[i].id # id
          /\ units' = Append(units, BridgeUnit(id, f, kd[1], kd[2]))
    /\ op' = "add_unit"
    /\ UNCHANGED <<turn, time_elapsed, ret, damage_events, fired_weapons, applied,
                   event_log, args, status, mitigated,
                   current_context, run_id, uuids, engines,
                   graph, path, causal, chain>>

\* BattleEngine::step.
Step ==
    /\ turn < MaxTurn
    /\ \E moved \in {MovementPass(units)} :
       \E targeted \in {TargetingPass(moved)} :
       \E fired \in {AttackPass(targeted)} :
       \E stream \in RollStreams :
       \E rolls \in {[n \in 1..Len(fired) |-> RollAt(stream, n)]} :
       \E events \in {DamageEvents(targeted, fired, rolls)} :
       \E reset \in {ResetCooldowns(targeted, fired)} :
       \E damaged \in {ApplyDamage(reset, events, 1, << >>)} :
       \E cooled \in {CooldownPass(damaged.units)} :
          /\ units' = cooled
          /\ damage_events' = events
          /\ fired_weapons' = fired
          /\ applied' = damaged.applied
          /\ \E emitted \in {IF event_log = {} THEN << >>
                              ELSE DestructionEvents(damaged.applied,
                                                     current_context, uuids)} :
                /\ event_log' = {log \o emitted : log \in event_log}
                /\ uuids' = uuids + Len(emitted)
          /\ ret' = StepResult(cooled)
    /\ turn' = turn + 1
    /\ time_elapsed' = time_elapsed + 1
    /\ op' = "step"
    /\ UNCHANGED <<args, status, mitigated, current_context, run_id, engines,
                   graph, path, causal, chain>>

Next == AddUnit \/ Step

Spec == Init /\ [][Next]_vars

(***************************************************************************)
(* The engine driven directly: the driver builds the units, hands them to  *)
(* BattleEngine::add_unit, then steps, attaches an event log and queries.  *)
(***************************************************************************)
InitArena ==
    /\ units \in ArenaRosters
    /\ turn = 0
    /\ time_elapsed = 0
    /\ op = "add_unit"
    /\ ret = FALSE
    /\ damage_events = << >>
    /\ fired_weapons = << >>
    /\ applied = << >>
    /\ event_log = {}
    /\ args = << >>
    /\ status = {}
    /\ mitigated = 0
    /\ current_context = CorrelationContext_new(0)
    /\ run_id = 0
    /\ uuids = 2
    /\ engines = << >>
    /\ graph = GraphTopology_new
    /\ path = {}
    /\ causal = CausalGraph_new
    /\ chain = [returns |-> TRUE, events |-> << >>]

\* RustCombatEngine::enable_event_logging -> BattleEngine::set_event_log: a
\* new, empty log takes the place of the one attached before, if any.
EnableEventLogging ==
    /\ event_log' = {<< >>}
    /\ op' = "enable_event_logging"
    /\ UNCHANGED <<units, turn, time_elapsed, ret, damage_events, fired_weapons,
                   applied, args, status, mitigated,
                   current_context, run_id, uuids, engines,
                   graph, path, causal, chain>>

\* RustCombatEngine::get_unit_status.
GetUnitStatus ==
    /\ \E id \in QueryIds :
          /\ status' = get_unit_status(units, id)
          /\ args' = <<id>>
    /\ op' = "get_unit_status"
    /\ UNCHANGED <<units, turn, time_elapsed, ret, damage_events, fired_weapons,
                   applied, event_log, mitigated,
                   current_context, run_id, uuids, engines,
                   graph, path, causal, chain>>

NextArena == Step \/ EnableEventLogging \/ GetUnitStatus

SpecArena == InitArena /\ [][NextArena]_vars

(***************************************************************************)
(* The engine traced: the driver sets the correlation context of the       *)
(* engine between the steps of a battle that logs its events.              *)
(***************************************************************************)
InitTrace ==
    /\ units \in TraceRosters
    /\ turn = 0
    /\ time_elapsed = 0
    /\ op = "add_unit"
    /\ ret = FALSE
    /\ damage_events = << >>
    /\ fired_weapons = << >>
    /\ applied = << >>
    /\ event_log = {}
    /\ args = << >>
    /\ status = {}
    /\ mitigated = 0
    /\ current_context = CorrelationContext_new(0)
    /\ run_id = 0
    /\ uuids = 2
    /\ engines = << >>
    /\ graph = GraphTopology_new
    /\ path = {}
    /\ causal = CausalGraph_new
    /\ chain = [returns |-> TRUE, events |-> << >>]

\* RustCombatEngine::set_correlation_context ->
\* BattleEngine::set_correlation_context.
SetCorrelationContext ==
    /\ \E context \in Contexts :
          /\ current_context' = context
          /\ run_id' = context.trace_id
          /\ args' = <<context>>
    /\ op' = "set_correlation_context"
    /\ UNCHANGED <<units, turn, time_elapsed, ret, damage_events, fired_weapons,
                   applied, event_log, status, mitigated, uuids, engines,
                   graph, path, causal, chain>>

NextTrace == Step \/ EnableEventLogging \/ SetCorrelationContext

SpecTrace == InitTrace /\ [][NextTrace]_vars

(***************************************************************************)
(* Two engines that share one EventLog: each is stepped by a thread of its *)
(* own while the battle it holds is active.  The state of an engine is its *)
(* own, so that the only steps of a step() another thread can observe are  *)
(* its calls of EventLog::add; emitting holds the events of the running    *)
(* step() that are still to be added.                                      *)
(***************************************************************************)
InitShared ==
    /\ units = << >>
    /\ turn = 0
    /\ time_elapsed = 0
    /\ op = "set_event_log"
    /\ ret = FALSE
    /\ damage_events = << >>
    /\ fired_weapons = << >>
    /\ applied = << >>
    /\ event_log = {<< >>}
    /\ args = << >>
    /\ status = {}
    /\ mitigated = 0
    /\ current_context = CorrelationContext_new(0)
    /\ run_id = 0
    /\ uuids = 4
    /\ \E r1, r2 \in SharedRosters :
          engines = [e \in 1..2 |->
                       [units |-> IF e = 1 THEN r1 ELSE r2,
                        turn |-> 0,
                        current_context |-> CorrelationContext_new(2 * (e - 1)),
                        active |-> TRUE,
                        emitting |-> << >>]]
    /\ graph = GraphTopology_new
    /\ path = {}
    /\ causal = CausalGraph_new
    /\ chain = [returns |-> TRUE, events |-> << >>]

\* BattleEngine::step of engine e up to its first call of EventLog::add.
EngineStep(e) ==
    /\ engines[e].emitting = << >>
    /\ engines[e].active
    /\ engines[e].turn < MaxTurn
    /\ \E targeted \in {TargetingPass(MovementPass(engines[e].units))} :
       \E fired \in {AttackPass(targeted)} :
       \E stream \in RollStreams :
       \E rolls \in {[n \in 1..Len(fired) |-> RollAt(stream, n)]} :
       \E damaged \in {ApplyDamage(ResetCooldowns(targeted, fired),
                                   DamageEvents(targeted, fired, rolls), 1, << >>)} :
       \E cooled \in {CooldownPass(damaged.units)} :
       \E emitted \in {DestructionEvents(damaged.applied,
                                         engines[e].current_context, uuids)} :
          /\ engines' = [engines EXCEPT ![e].units = cooled,
                                        ![e].turn = engines[e].turn + 1,
                                        ![e].active = StepResult(cooled),
                                        ![e].emitting = emitted]
          /\ uuids' = uuids + Len(emitted)
          /\ args' = <<e, stream>>
    /\ op' = "step"
    /\ UNCHANGED <<units, turn, time_elapsed, ret, damage_events, fired_weapons,
                   applied, event_log, status, mitigated, current_context, run_id,
                   graph, path, causal, chain>>

\* The next call of EventLog::add of the step() that engine e is running.
EngineLogAdd(e) ==
    /\ engines[e].emitting # << >>
    /\ event_log' = {EventLog_add(events, Head(engines[e].emitting)) :
                        events \in event_log}
    /\ engines' = [engines EXCEPT ![e].emitting = Tail(engines[e].emitting)]
    /\ args' = <<e>>
    /\ op' = "add"
    /\ UNCHANGED <<units, turn, time_elapsed, ret, damage_events, fired_weapons,
                   applied, status, mitigated, current_context, run_id, uuids,
                   graph, path, causal, chain>>

NextShared == \E e \in 1..2 : EngineStep(e) \/ EngineLogAdd(e)

SpecShared == InitShared /\ [][NextShared]_vars

(***************************************************************************)
(* The pathfinder: the driver adds nodes and edges and asks for paths.     *)
(***************************************************************************)
InitPath ==
    /\ units = << >>
    /\ turn = 0
    /\ time_elapsed = 0
    /\ op = "new"
    /\ ret = FALSE
    /\ damage_events = << >>
    /\ fired_weapons = << >>
    /\ applied = << >>
    /\ event_log = {}
    /\ args = << >>
    /\ status = {}
    /\ mitigated = 0
    /\ current_context = CorrelationContext_new(0)
    /\ run_id = 0
    /\ uuids = 2
    /\ engines = << >>
    /\ graph = GraphTopology_new
    /\ path = {}
    /\ causal = CausalGraph_new
    /\ chain = [returns |-> TRUE, events |-> << >>]

\* RustPathfinder::add_node.
AddNode ==
    /\ \E id \in NodeIds, terrain \in TerrainStrs :
          /\ graph' = add_node(graph, id, terrain)
          /\ args' = <<id, terrain>>
    /\ op' = "add_node"
    /\ UNCHANGED <<units, turn, time_elapsed, ret, damage_events, fired_weapons,
                   applied, event_log, status, mitigated, current_context, run_id,
                   uuids, engines, path, causal, chain>>

\* RustPathfinder::add_edge.
AddEdge ==
    /\ \E e \in Routes :
          /\ graph' = add_edge(graph, e.from, e.to, e.weight)
          /\ args' = <<e.from, e.to, e.weight>>
    /\ op' = "add_edge"
    /\ UNCHANGED <<units, turn, time_elapsed, ret, damage_events, fired_weapons,
                   applied, event_log, status, mitigated, current_context, run_id,
                   uuids, engines, path, causal, chain>>

\* RustPathfinder::clear.
ClearGraph ==
    /\ graph' = GraphTopology_new
    /\ op' = "clear"
    /\ UNCHANGED <<units, turn, time_elapsed, ret, damage_events, fired_weapons,
                   applied, event_log, args, status, mitigated, current_context,
                   run_id, uuids, engines, path, causal, chain>>

\* RustPathfinder::find_path.
FindPath ==
    /\ \E start \in QueryStarts, end \in QueryEnds, profile \in Profiles :
          /\ path' \in find_path(graph, start, end, profile)
          /\ args' = <<start, end, profile>>
    /\ op' = "find_path"
    /\ UNCHANGED <<units, turn, time_elapsed, ret, damage_events, fired_weapons,
                   applied, event_log, status, mitigated, current_context, run_id,
                   uuids, engines, graph, causal, chain>>

NextPath == AddNode \/ AddEdge \/ ClearGraph \/ FindPath

SpecPath == InitPath /\ [][NextPath]_vars

(***************************************************************************)
(* The causal graph: the driver loads events and asks for causal chains.   *)
(***************************************************************************)
InitCausal ==
    /\ units = << >>
    /\ turn = 0
    /\ time_elapsed = 0
    /\ op = "new"
    /\ ret = FALSE
    /\ damage_events = << >>
    /\ fired_weapons = << >>
    /\ applied = << >>
    /\ event_log = {}
    /\ args = << >>
    /\ status = {}
    /\ mitigated = 0
    /\ current_context = CorrelationContext_new(0)
    /\ run_id = 0
    /\ uuids = 2
    /\ engines = << >>
    /\ graph = GraphTopology_new
    /\ path = {}
    /\ causal = CausalGraph_new
    /\ chain = [returns |-> TRUE, events |-> << >>]

\* RustCausalGraph::add_event_json -> CausalGraph::add_event.
AddEvent ==
    /\ \E event \in LoadedEvents :
          /\ event.context.parent_id # {} => ChildLinks(causal) < MaxEvents
          /\ causal' = add_event(causal, event)
          /\ args' = <<event>>
    /\ op' = "add_event"
    /\ UNCHANGED <<units, turn, time_elapsed, ret, damage_events, fired_weapons,
                   applied, event_log, status, mitigated, current_context, run_id,
                   uuids, engines, graph, path, chain>>

\* RustCausalGraph::get_causal_chain.
GetCausalChain ==
    /\ \E span_id \in SpanIds :
          /\ chain' = get_causal_chain(causal, span_id)
          /\ args' = <<span_id>>
    /\ op' = "get_causal_chain"
    /\ UNCHANGED <<units, turn, time_elapsed, ret, damage_events, fired_weapons,
                   applied, event_log, status, mitigated, current_context, run_id,
                   uuids, engines, graph, path, causal>>

\* RustCausalGraph::get_consequences.
GetConsequences ==
    /\ \E span_id \in SpanIds :
          /\ chain' = get_consequences(causal, span_id)
          /\ args' = <<span_id>>
    /\ op' = "get_consequences"
    /\ UNCHANGED <<units, turn, time_elapsed, ret, damage_events, fired_weapons,
                   applied, event_log, status, mitigated, current_context, run_id,
                   uuids, engines, graph, path, causal>>

NextCausal == AddEvent \/ GetCausalChain \/ GetConsequences

SpecCausal == InitCausal /\ [][NextCausal]_vars

(***************************************************************************)
(* The defence of a unit: the driver builds units, sets their cover and    *)
(* has damage mitigated by them.                                           *)
(***************************************************************************)
InitDefence ==
    /\ units \in DefenceRosters
    /\ turn = 0
    /\ time_elapsed = 0
    /\ op = "add_unit"
    /\ ret = FALSE
    /\ damage_events = << >>
    /\ fired_weapons = << >>
    /\ applied = << >>
    /\ event_log = {}
    /\ args = << >>
    /\ status = {}
    /\ mitigated = 0
    /\ current_context = CorrelationContext_new(0)
    /\ run_id = 0
    /\ uuids = 2
    /\ engines = << >>
    /\ graph = GraphTopology_new
    /\ path = {}
    /\ causal = CausalGraph_new
    /\ chain = [returns |-> TRUE, events |-> << >>]

\* RustCombatEngine::set_unit_cover -> BattleEngine::set_unit_cover.
SetUnitCover ==
    /\ \E id \in CoverIds, cover_val \in CoverVals :
          /\ units' = set_unit_cover(units, id, cover_val)
          /\ args' = <<id, cover_val>>
    /\ op' = "set_unit_cover"
    /\ UNCHANGED <<turn, time_elapsed, ret, damage_events, fired_weapons, applied,
                   event_log, status, mitigated,
                   current_context, run_id, uuids, engines,
                   graph, path, causal, chain>>

\* Armor::mitigate_damage of the unit at position i of the roster.
MitigateDamage ==
    /\ \E i \in 1..Len(units), damage \in RawDamages, damage_type \in DamageTypes :
          mitigated' = [unit |-> i, damage |-> damage, damage_type |-> damage_type,
                        result |-> mitigate_damage(units[i], damage, damage_type)]
    /\ op' = "mitigate_damage"
    /\ UNCHANGED <<units, turn, time_elapsed, ret, damage_events, fired_weapons,
                   applied, event_log, args, status,
                   current_context, run_id, uuids, engines,
                   graph, path, causal, chain>>

NextDefence == SetUnitCover \/ MitigateDamage

SpecDefence == InitDefence /\ [][NextDefence]_vars

(***************************************************************************)
(* Properties                                                              *)
(***************************************************************************)
Alive(i) == units[i].is_alive
Roster == 1..Len(units)

\* Unit j is a living enemy of unit i, other than i itself.
Enemy(i, j) ==
    /\ units[j].is_alive
    /\ units[j].id # units[i].id
    /\ units[j].faction_idx # units[i].faction_idx

C2_AllZeroHpConcludes ==
    ( /\ op = "step"
      /\ {units[i].faction_idx : i \in Roster} = Factions
      /\ \E f \in Factions : \A i \in Roster : units[i].faction_idx = f => units[i].hp = 0 )
    => ~ret

\* C3: once step() has returned false, the next step() returns false, changes
\* no hp, shields or alive flag, enqueues no damage event and resets no
\* cooldown.
C3_ConcludedIsAbsorbing ==
    [][ (op = "step" /\ ~ret /\ op' = "step") =>
            /\ ~ret'
            /\ \A i \in Roster :
                  /\ units'[i].hp = units[i].hp
                  /\ units'[i].shields = units[i].shields
                  /\ units'[i].is_alive = units[i].is_alive
            /\ damage_events' = << >>
            /\ fired_weapons' = << >> ]_vars

\* C4: after each step(), a unit flagged alive has 0 < hp <= max_hp and a unit
\* flagged dead has hp = 0.
C4_AliveIffPositiveHp ==
    op = "step" =>
        \A i \in Roster :
            /\ Alive(i) => (0 < units[i].hp /\ units[i].hp <= units[i].max_hp)
            /\ ~Alive(i) => units[i].hp = 0

\* C5: every damage application has mitigated damage >= 0 and leaves the
\* defender's hp no higher than before, and no step of the engine raises the
\* hp or the shields of a unit.
C5_DamageNeverHeals ==
    [][ /\ \A n \in 1..Len(applied') :
              /\ applied'[n].actual_loss >= 0
              /\ applied'[n].hp_after <= applied'[n].hp_before
        /\ \A i \in Roster :
              /\ units'[i].hp <= units[i].hp
              /\ units'[i].shields <= units[i].shields ]_vars

\* A step() in which a hit went through the shields into hp.
C5_Witness ==
    /\ op = "step"
    /\ \E n \in 1..Len(applied) :
          /\ applied[n].actual_loss > 0
          /\ applied[n].shields_before > 0
          /\ applied[n].shields_after = 0
          /\ applied[n].hp_after < applied[n].hp_before

\* C6: a target_id that is set names another unit, of another faction, and
\* every damage event is aimed at a unit of another faction than the unit
\* that fired it.
C6_NoFriendlyFire ==
    /\ \A i \in Roster : \A t \in units[i].target_id :
          \E j \in Roster :
              /\ units[j].id = t
              /\ j # i
              /\ units[j].faction_idx # units[i].faction_idx
    /\ \A n \in 1..Len(damage_events) :
          \E j \in Roster :
              /\ units[j].id = damage_events[n].target_id
              /\ j # damage_events[n].attacker
              /\ units[j].faction_idx # units[damage_events[n].attacker].faction_idx

\* A step() in which a unit fired although a unit of its own faction was
\* nearer to it than the unit it fired at.
C6_Witness ==
    /\ op = "step"
    /\ \E n \in 1..Len(damage_events) : \E j, t \in Roster :
          LET a == damage_events[n].attacker
          IN  /\ units[t].id = damage_events[n].target_id
              /\ j # a
              /\ units[j].is_alive
              /\ units[j].faction_idx = units[a].faction_idx
              /\ DistSq(units[a].position, units[j].position)
                    < DistSq(units[a].position, units[t].position)

\* C7: find_best_target returns None exactly when the attacker has no living
\* enemy, and otherwise the id of the living enemy at the least squared
\* distance that comes first in the roster.
C7_NearestEnemyFirstInRoster ==
    \A a \in Roster :
        LET found == find_best_target(units[a], units)
        IN  /\ found = {} <=> ~ \E j \in Roster : Enemy(a, j)
            /\ \A t \in found :
                  \E j \in Roster :
                      /\ Enemy(a, j)
                      /\ units[j].id = t
                      /\ \A m \in Roster :
                            Enemy(a, m) =>
                               \/ DistSq(units[a].position, units[j].position)
                                     < DistSq(units[a].position, units[m].position)
                               \/ /\ DistSq(units[a].position, units[j].position)
                                        = DistSq(units[a].position, units[m].position)
                                  /\ j <= m

\* A step() in which a unit took as target the first of two enemies at the
\* same, least distance.
C7_Witness ==
    /\ op = "step"
    /\ turn = 1
    /\ \E a, j, m \in Roster :
          /\ Alive(a) /\ Enemy(a, j) /\ Enemy(a, m)
          /\ j < m
          /\ DistSq(units[a].position, units[j].position)
                = DistSq(units[a].position, units[m].position)
          /\ units[a].target_id = {units[j].id}

\* C8: the search over the spatial index returns what the linear search
\* returns, for every attacker.
C8_SpatialEqualsLinear ==
    \A a \in Roster :
        find_best_target_spatial(units[a], units, SpatialHash_build(units, CellSize))
            = find_best_target(units[a], units)

\* C9: a living unit's target_id changes in a step() only if it named no
\* unit of the roster or a unit that was not alive.
C9_TargetKeptWhileAlive ==
    [][ \A i \in Roster :
            (units[i].is_alive /\ units'[i].target_id # units[i].target_id) =>
                \A t \in units[i].target_id :
                    \A j \in Roster : units[j].id = t => ~units[j].is_alive ]_vars

\* A step() after which a unit holds a living target although another
\* living enemy is strictly nearer.
C9_Witness ==
    /\ op = "step"
    /\ \E i, j, m \in Roster :
          /\ Alive(i) /\ Enemy(i, j) /\ Enemy(i, m)
          /\ units[i].target_id = {units[j].id}
          /\ DistSq(units[i].position, units[m].position)
                < DistSq(units[i].position, units[j].position)

\* The permutations of 1..n.
RosterOrders(n) ==
    {p \in [1..n -> 1..n] : \A i, j \in 1..n : p[i] = p[j] => i = j}

\* No unit of the roster has two units of another faction at the same
\* distance.
NoEquidistantEnemies(us) ==
    \A i, j, m \in 1..Len(us) :
        ( /\ j # m
          /\ us[j].faction_idx # us[i].faction_idx
          /\ us[m].faction_idx # us[i].faction_idx )
        => DistSq(us[i].position, us[j].position)
              # DistSq(us[i].position, us[m].position)

\* C11: for a roster with no two enemies equidistant from any unit, before
\* and after the movement of the tick, and any reordering of it, a step() with
\* the same roll for each (unit, weapon) pair leaves each unit with the same
\* position, hp, shields and alive flag in both.
C11_RosterOrderIrrelevant ==
    (NoEquidistantEnemies(units) /\ NoEquidistantEnemies(MovementPass(units))) =>
        \A p \in RosterOrders(Len(units)), stream \in RollStreams :
            LET permuted == [i \in Roster |-> units[p[i]]]
                here == StepUnits(units, stream, TRUE)
                there == StepUnits(permuted, stream, TRUE)
            IN  \A i \in Roster :
                    /\ there[i].id = here[p[i]].id
                    /\ there[i].position = here[p[i]].position
                    /\ there[i].hp = here[p[i]].hp
                    /\ there[i].shields = here[p[i]].shields
                    /\ there[i].is_alive = here[p[i]].is_alive

\* C12: an application of Energy damage with mitigated amount D to a defender
\* with shields S > 0 leaves shields max(S - D, 0) and takes exactly
\* max(D - S, 0) from hp, and no application leaves shields below 0.
C12_ShieldOverflow ==
    \A n \in 1..Len(applied) :
        LET S == applied[n].shields_before
            D == applied[n].actual_loss
        IN  /\ applied[n].shields_after >= 0
            /\ (applied[n].dtype = "Energy" /\ S > 0) =>
                  /\ applied[n].shields_after = Max(S - D, 0)
                  /\ applied[n].hp_before - applied[n].hp_applied = Max(D - S, 0)

\* A step() in which an Energy hit exceeded the shields of its target, and
\* one in which the overflow alone destroyed the target.
C12_Witness ==
    /\ op = "step"
    /\ \E n \in 1..Len(applied) :
          /\ applied[n].dtype = "Energy"
          /\ applied[n].shields_before > 0
          /\ applied[n].actual_loss > applied[n].shields_before
          /\ applied[n].hp_applied < 0
          /\ applied[n].destroyed

\* The defender of the last mitigate_damage().
Defender == units[mitigated.unit]

\* The cover factors in percent, as the specification lists them.
CoverPercent(cover) ==
    CASE cover = "None"      -> 0
      [] cover = "Light"     -> 25
      [] cover = "Heavy"     -> 50
      [] cover = "Fortified" -> 75

\* C13: mitigate_damage returns max(0, raw * (1 - mitigation_factor) *
\* (1 - cover_factor)), the cover factor 0, 25, 50 or 75 percent whatever the
\* damage type; armor 100 with Kinetic 100 and no cover gives 50, shields 50
\* of 100 with Energy 100 and no cover gives 75, armor 0 with Kinetic 100
\* under Heavy cover gives 50.
C13_MitigationFormula ==
    op = "mitigate_damage" =>
        LET f == MitigationFactor(Defender, mitigated.damage_type)
            raw == mitigated.damage
            factors == raw * (f[2] - f[1]) * (100 - CoverPercent(Defender.cover))
        IN  /\ mitigated.result = Max(0, TruncDiv(factors, f[2] * 100))
            /\ ( /\ Defender.armor = Flt(100, 0) /\ Defender.cover = "None"
                  /\ mitigated.damage_type = "Kinetic" /\ raw = 100 )
               => mitigated.result = 50
            /\ ( /\ Defender.shields = 50 /\ Defender.max_shields = 100
                  /\ Defender.cover = "None"
                  /\ mitigated.damage_type = "Energy" /\ raw = 100 )
               => mitigated.result = 75
            /\ ( /\ Defender.armor = Flt(0, 0) /\ Defender.cover = "Heavy"
                  /\ mitigated.damage_type = "Kinetic" /\ raw = 100 )
               => mitigated.result = 50

\* A mitigate_damage() of Kinetic 100 by a unit of armor 0 that
\* set_unit_cover() put under Heavy cover, which returned 50.
C13_Witness ==
    /\ op = "mitigate_damage"
    /\ Defender.armor = Flt(0, 0)
    /\ Defender.cover = "Heavy"
    /\ Defender.id = 2
    /\ mitigated.damage_type = "Kinetic"
    /\ mitigated.damage = 100
    /\ mitigated.result = 50

\* C14: the mitigated amount of Explosive damage is raw * (1 - cover_factor),
\* and it is the same for any other defender put under the same cover,
\* whatever its armor, shields and max_shields.
C14_ExplosiveIgnoresArmorAndShields ==
    (op = "mitigate_damage" /\ mitigated.damage_type = "Explosive") =>
        /\ mitigated.result =
              TruncDiv(mitigated.damage * (100 - CoverPercent(Defender.cover)), 100)
        /\ \A d \in Defenders :
              mitigate_damage([d EXCEPT !.cover = Defender.cover],
                              mitigated.damage, "Explosive") = mitigated.result

\* A mitigate_damage() of Explosive 100 by a unit with armor, charged shields
\* and Heavy cover.
C14_Witness ==
    /\ op = "mitigate_damage"
    /\ mitigated.damage_type = "Explosive"
    /\ mitigated.damage = 100
    /\ Defender.armor = Flt(100, 0)
    /\ Defender.shields > 0
    /\ Defender.cover = "Heavy"
    /\ mitigated.result = 50

\* C15: the Energy mitigation factor is min(shields / max_shields, 1) * 0.5
\* when max_shields > 0 and 0 otherwise, never above one half, so that the
\* mitigated Energy damage is never below half of raw * (1 - cover_factor).
C15_EnergyMitigationCapped ==
    (op = "mitigate_damage" /\ mitigated.damage_type = "Energy") =>
        LET f == MitigationFactor(Defender, "Energy")
            ms == Defender.max_shields
        IN  /\ 0 <= f[1]
            /\ 2 * f[1] <= f[2]
            /\ IF ms > 0
               THEN f[1] * 2 * ms = Min(Defender.shields, ms) * f[2]
               ELSE f[1] = 0
            /\ 200 * mitigated.result
                  >= mitigated.damage * (100 - CoverPercent(Defender.cover)) - 200

\* C16: the Kinetic mitigation factor is below 1, and Kinetic damage with
\* positive raw damage and no cover has a positive mitigated amount.
C16_KineticMitigationBelowOne ==
    (op = "mitigate_damage" /\ mitigated.damage_type = "Kinetic") =>
        LET f == MitigationFactor(Defender, "Kinetic")
        IN  /\ f[1] < f[2]
            /\ (mitigated.damage > 0 /\ Defender.cover = "None")
                  => mitigated.result > 0

\* C17: set_unit_cover(id, v) gives the unit with that id the cover category
\* of v and changes nothing else of it, no other unit, and nothing at all
\* when no unit has the id.
C17_SetUnitCoverFrame ==
    [][ op' = "set_unit_cover" =>
            LET id == args'[1]
                v == args'[2]
                category == CASE v = 1 -> "Light"
                              [] v = 2 -> "Heavy"
                              [] v = 3 -> "Fortified"
                              [] OTHER -> "None"
            IN  /\ Len(units') = Len(units)
                /\ \A i \in Roster :
                      IF units[i].id = id
                      THEN units'[i] = [units[i] EXCEPT !.cover = category]
                      ELSE units'[i] = units[i]
                /\ (\A i \in Roster : units[i].id # id) => units' = units
                /\ UNCHANGED <<turn, time_elapsed, event_log,
                   current_context, run_id, uuids, engines,
                   graph, path, causal, chain>> ]_vars

\* A set_unit_cover(1, 3) that left the unit of id 1, second in the roster,
\* Fortified and the first unit of the roster without cover.
C17_Witness ==
    /\ op = "set_unit_cover"
    /\ args = <<1, 3>>
    /\ units[2].id = 1
    /\ units[2].cover = "Fortified"
    /\ units[1].cover = "None"

\* C18: get_unit_status(id) returns the (hp, shields, alive) of the unit with
\* that id, None when there is none, and changes nothing of the battle; no
\* operation removes a unit or changes its id, so a unit once added, dead or
\* alive, keeps being found.
C18_StatusQuery ==
    [][ /\ Len(units') >= Len(units)
        /\ \A i \in Roster : units'[i].id = units[i].id
        /\ op' = "get_unit_status" =>
              /\ UNCHANGED <<units, turn, time_elapsed, event_log,
                   current_context, run_id, uuids, engines,
                   graph, path, causal, chain>>
              /\ IF \E i \in Roster : units[i].id = args'[1]
                 THEN \E i \in Roster :
                         /\ units[i].id = args'[1]
                         /\ status' = {<<units[i].hp, units[i].shields,
                                         units[i].is_alive>>}
                 ELSE status' = {} ]_vars

\* A get_unit_status() that returned the status of a unit destroyed in an
\* earlier step().
C18_Witness ==
    /\ op = "get_unit_status"
    /\ turn >= 1
    /\ \E i \in Roster :
          /\ units[i].id = args[1]
          /\ ~units[i].is_alive
          /\ status = {<<0, units[i].shields, FALSE>>}

\* Unit i is alive and its target_id names no unit of the roster.
Unresolvable(i) ==
    /\ units[i].is_alive
    /\ units[i].target_id # {}
    /\ \A t \in units[i].target_id : IndexOf(units, t) = 0

\* C19: in a step(), a living unit whose target_id names no unit does not
\* move, no damage event is aimed at that id, the unit takes the target that
\* find_best_target returns after the movement, a living enemy whenever the
\* roster has one, and the tick is completed: every other unit ends as in the
\* tick of the same roster with that target_id None.
C19_UnresolvableTargetSkipped ==
    [][ op' = "step" =>
          \A i \in Roster :
              Unresolvable(i) =>
                  /\ turn' = turn + 1
                  /\ units'[i].position = units[i].position
                  /\ \A n \in 1..Len(damage_events') :
                        damage_events'[n].target_id \notin units[i].target_id
                  /\ LET moved == MovementPass(units)
                         found == find_best_target(moved[i], moved)
                     IN  /\ found # {} => units'[i].target_id = found
                         /\ (\E j \in Roster : Enemy(i, j) /\ units[j].is_alive)
                               => \E j \in Roster :
                                     /\ Enemy(i, j)
                                     /\ units[j].is_alive
                                     /\ units'[i].target_id = {units[j].id}
                  /\ \E stream \in RollStreams :
                        LET normal == StepUnits([units EXCEPT ![i].target_id = {}],
                                                stream, FALSE)
                        IN  \A j \in Roster \ {i} : units'[j] = normal[j] ]_vars

\* A first step() after which unit 2, whose target_id named no unit, holds a
\* target of the roster and has fired at it from where it stood.
C19_Witness ==
    /\ op = "step"
    /\ turn = 1
    /\ \E i, j \in Roster :
          /\ units[i].id = 2
          /\ units[i].position = Pos(0 - 6)
          /\ units[i].target_id = {units[j].id}
          /\ \E n \in 1..Len(damage_events) :
                /\ damage_events[n].attacker = i
                /\ damage_events[n].target_id = units[j].id

\* C20: a step() with an event log attached appends one "Combat" event for
\* each unit whose alive flag it turns from true to false, and nothing else,
\* so that no log holds two events for one unit; with no log attached none
\* comes into being, and with or without a log the roster after the step is
\* the same function of the roster before it and the rolls.
C20_OneEventPerDeath ==
    [][ op' = "step" =>
          LET died == {i \in Roster : units[i].is_alive /\ ~units'[i].is_alive}
          IN  /\ event_log = {} => event_log' = {}
              /\ \A old \in event_log :
                    \E new \in event_log' :
                        /\ event_log' = {new}
                        /\ Len(new) = Len(old) + Cardinality(died)
                        /\ SubSeq(new, 1, Len(old)) = old
                        /\ \A k \in (Len(old) + 1)..Len(new) :
                              new[k].category = "Combat"
                        /\ \A i \in died :
                              Cardinality({k \in (Len(old) + 1)..Len(new) :
                                  new[k].message.destroyed = units[i].id}) = 1
                        /\ \A k, m \in 1..Len(new) :
                              new[k].message.destroyed = new[m].message.destroyed
                                  => k = m
              /\ \E stream \in RollStreams :
                    units' = StepUnits(units, stream, FALSE) ]_vars

\* A step() with a log attached in which two damage events were aimed at a
\* unit that the first of them destroyed, and the log holds one event.
C20_Witness ==
    /\ op = "step"
    /\ \E log \in event_log :
          /\ Len(log) = 1
          /\ \E n \in 1..Len(applied) :
                /\ applied[n].destroyed
                /\ log[1].message.destroyed = applied[n].target_id
                /\ Cardinality({k \in 1..Len(damage_events) :
                       damage_events[k].target_id = applied[n].target_id}) >= 2

\* C21: every event a step() appends carries the trace_id of the context the
\* engine had when the step began, has the span_id of that context as its
\* parent_id and a span_id that no event of the log and no context of the
\* engine had before, and the step leaves the context of the engine as it
\* was.
C21_EventsAreChildrenOfCurrentContext ==
    [][ op' = "step" =>
          /\ current_context' = current_context
          /\ \A old \in event_log, new \in event_log' :
                \A k \in (Len(old) + 1)..Len(new) :
                    /\ new[k].context.trace_id = current_context.trace_id
                    /\ new[k].context.parent_id = {current_context.span_id}
                    /\ new[k].context.span_id # current_context.span_id
                    /\ \A m \in 1..Len(new) :
                          new[m].context.span_id = new[k].context.span_id
                              => m = k ]_vars

\* A log with two events emitted after set_correlation_context() gave the
\* engine the child context of the driver: both are children of span 103 in
\* trace 101.
C21_Witness ==
    /\ op = "step"
    /\ current_context.span_id = 103
    /\ \E log \in event_log :
          /\ Len(log) >= 2
          /\ \E k, m \in 1..Len(log) :
                /\ k # m
                /\ log[k].context.parent_id = {103}
                /\ log[m].context.parent_id = {103}
                /\ log[k].context.trace_id = 101
                /\ log[m].context.trace_id = 101

\* The units of engine e that are dead; every unit of a shared battle is
\* alive when it begins.
Fallen(es, e) == {i \in 1..Len(es[e].units) : ~es[e].units[i].is_alive}

\* The events of engine e in a sequence of events.
EventsOf(es, e, events) ==
    SelectSeq(events,
              LAMBDA ev : ev.context.trace_id = es[e].current_context.trace_id)

\* C22: with two engines adding to one log in any interleaving, after every
\* step the log and the events still to be added hold exactly one event for
\* each dead unit of each engine, the events of one engine stand in the log
\* in the order in which the engine made them, and a step() of an engine takes
\* its roster to what step() makes of it alone and leaves the other engine's
\* roster as it is.
C22_SharedLogKeepsEveryEvent ==
    [][ \A log \in event_log' :
          /\ \A e \in 1..2 :
                LET made == EventsOf(engines', e, log) \o engines'[e].emitting
                IN  /\ Len(made) = Cardinality(Fallen(engines', e))
                    /\ \A i \in Fallen(engines', e) :
                          Cardinality({k \in 1..Len(made) :
                              made[k] = DestructionEvent(
                                            engines'[e].units[i].id,
                                            made[k].context)}) = 1
                    /\ \A k, m \in 1..Len(made) :
                          k < m => made[k].context.span_id < made[m].context.span_id
          /\ Len(log) = Len(EventsOf(engines', 1, log))
                          + Len(EventsOf(engines', 2, log))
          /\ \A e \in 1..2 :
                \/ engines'[e].units = engines[e].units
                \/ /\ \E stream \in RollStreams :
                         engines'[e].units
                             = StepUnits(engines[e].units, stream, FALSE)
                   /\ engines'[3 - e].units = engines[3 - e].units ]_vars

\* A log in which an event of engine 2 stands between the two events that
\* one step() of engine 1 made, although engine 2 made it after them.
C22_Witness ==
    /\ op = "add"
    /\ \E log \in event_log :
       \E k \in 1..Len(log) :
          /\ k + 2 <= Len(log)
          /\ log[k].context.trace_id = engines[1].current_context.trace_id
          /\ log[k + 1].context.trace_id = engines[2].current_context.trace_id
          /\ log[k + 2].context.trace_id = engines[1].current_context.trace_id
          /\ log[k + 2].context.span_id = log[k].context.span_id + 1
          /\ log[k + 1].context.span_id > log[k + 2].context.span_id

\* At least two factions have a living unit, every unit has speed 0 and
\* every two units of different factions are farther apart than the range of
\* every weapon of either.
Stalemate(us) ==
    /\ Cardinality(LivingFactions(us)) >= 2
    /\ \A i \in 1..Len(us) : us[i].speed = 0
    /\ \A i, j \in 1..Len(us) :
          us[i].faction_idx # us[j].faction_idx =>
              \A w \in 1..Len(us[i].weapons) :
                  DistSq(us[i].position, us[j].position)
                      > us[i].weapons[w].range * us[i].weapons[w].range

\* C23: a step() of a battle in stalemate returns true, changes no unit's hp,
\* shields, position or alive flag, and leaves the battle in stalemate, so
\* that the same holds of every step after it.
C23_StalemateNeverConcludes ==
    [][ (Stalemate(units) /\ op' = "step") =>
          /\ ret' = TRUE
          /\ Stalemate(units')
          /\ Len(units') = Len(units)
          /\ \A i \in Roster :
                /\ units'[i].hp = units[i].hp
                /\ units'[i].shields = units[i].shields
                /\ units'[i].position = units[i].position
                /\ units'[i].is_alive = units[i].is_alive ]_vars

\* A third step() of a stalemate of armed units: each holds a target and a
\* weapon that is ready, and the step returned true.
C23_Witness ==
    /\ op = "step"
    /\ turn >= 3
    /\ ret = TRUE
    /\ Stalemate(units)
    /\ \A i \in Roster :
          /\ units[i].target_id # {}
          /\ units[i].weapons # << >>
          /\ units[i].weapons[1].current_cooldown = 0

\* The directed paths of the graph from start to end that pass no node
\* twice, as sequences of nodes; with weights that are not negative no other
\* path costs less than the cheapest of them.
DirectedPaths(g, start, end) ==
    {p \in UNION {[1..n -> DOMAIN g.nodes] : n \in 1..Cardinality(DOMAIN g.nodes)} :
        /\ p[1] = start
        /\ p[Len(p)] = end
        /\ \A k, m \in 1..Len(p) : p[k] = p[m] => k = m
        /\ \A k \in 1..(Len(p) - 1) :
              \E e \in g.edges : e.from = p[k] /\ e.to = p[k + 1]}

\* The cost of a path under a profile: the sum of the costs of its edges.
RECURSIVE PathCost(_, _, _)
PathCost(g, p, profile) ==
    IF Len(p) <= 1 THEN 0
    ELSE LET costs == {edge_cost(g, e, profile) :
                          e \in {x \in g.edges : x.from = p[Len(p) - 1]
                                                  /\ x.to = p[Len(p)]}}
         IN  PathAdd(PathCost(g, SubSeq(p, 1, Len(p) - 1), profile),
                     CHOOSE c \in costs : \A d \in costs : c <= d)

\* C24: a path that find_path(start, end) returns is a directed path of the
\* graph from start to end, listed from start to end, the cost returned with
\* it is the sum of the costs of its edges, and no directed path from start
\* to end costs less.
C24_FindPathIsCheapest ==
    op = "find_path" =>
        \A found \in path :
            /\ found.path \in DirectedPaths(graph, args[1], args[2])
            /\ found.cost = PathCost(graph, found.path, args[3])
            /\ \A p \in DirectedPaths(graph, args[1], args[2]) :
                  found.cost <= PathCost(graph, p, args[3])

\* With the edges A-B 10, B-C 20 and A-C 100, find_path("A", "C") returned
\* [A, B, C] with the cost 30.
C24_Witness ==
    /\ op = "find_path"
    /\ args = <<"A", "C", "None">>
    /\ graph.edges = { [from |-> "A", to |-> "B", weight |-> 10],
                       [from |-> "B", to |-> "C", weight |-> 20],
                       [from |-> "A", to |-> "C", weight |-> 100] }
    /\ path = {[path |-> <<"A", "B", "C">>, cost |-> 30]}

\* C25: find_path(start, end) returns None exactly when start or end is not
\* a node or no directed path from start to end has a finite cost, and a cost
\* it returns is finite.
C25_NoPathIsNone ==
    op = "find_path" =>
        /\ \A found \in path : found.cost < F32Infinity
        /\ path = {} <=>
              \/ args[1] \notin DOMAIN graph.nodes
              \/ args[2] \notin DOMAIN graph.nodes
              \/ \A p \in DirectedPaths(graph, args[1], args[2]) :
                    PathCost(graph, p, args[3]) = F32Infinity

\* find_path("A", "C", "Ground") returned None in a graph where both A-B-C
\* and A-C lead to C, which is Water: every path there has infinite cost.
C25_Witness ==
    /\ op = "find_path"
    /\ args = <<"A", "C", "Ground">>
    /\ "C" \in DOMAIN graph.nodes
    /\ graph.nodes["C"] = "Water"
    /\ [from |-> "A", to |-> "C", weight |-> 100] \in graph.edges
    /\ [from |-> "B", to |-> "C", weight |-> 20] \in graph.edges
    /\ [from |-> "A", to |-> "B", weight |-> 10] \in graph.edges
    /\ path = {}

\* C26: a chain that get_causal_chain(span) returns is empty exactly when
\* no event of that span is recorded; otherwise its last element is the event
\* recorded for the span, the span_id of each element is the parent_id of the
\* element after it, and the first element has no parent or a parent for
\* which no event is recorded.
C26_CausalChainRootToTarget ==
    (op = "get_causal_chain" /\ chain.returns) =>
        LET c == chain.events
        IN  /\ c = << >> <=> args[1] \notin DOMAIN causal.events
            /\ c # << >> =>
                  /\ c[Len(c)] = causal.events[args[1]]
                  /\ c[Len(c)].context.span_id = args[1]
                  /\ \A k \in 1..(Len(c) - 1) :
                        c[k + 1].context.parent_id = {c[k].context.span_id}
                  /\ \A q \in c[1].context.parent_id :
                        q \notin DOMAIN causal.events

\* C27: in a step(), a living unit with speed > 0 whose target stood at
\* distance d when the step began ends at distance max(d - speed, 20) from
\* where the target stood, min(speed, d - 20) from where it stood itself and
\* on the straight line between the two, if d > 20, and where it stood if not.
C27_MoveTowardSnapshot ==
    [][ op' = "step" =>
          \A i \in Roster :
              ( /\ units[i].is_alive
                /\ units[i].speed > 0
                /\ \E t \in units[i].target_id : IndexOf(units, t) # 0 ) =>
                  LET j == IndexOf(units, CHOOSE t \in units[i].target_id : TRUE)
                      old == units[i].position
                      goal == units[j].position
                      new == units'[i].position
                      d == Sqrt(DistSq(old, goal))
                      to_goal == Max(d - units[i].speed, 20)
                      moved == Min(units[i].speed, d - 20)
                  IN  /\ d * d = DistSq(old, goal)
                      /\ IF d > 20
                         THEN /\ DistSq(new, goal) = to_goal * to_goal
                              /\ DistSq(old, new) = moved * moved
                              /\ to_goal + moved = d
                         ELSE new = old ]_vars

\* A second step() in which two units that target each other from 25 apart
\* have both moved by 5, each to 20 from where the other stood.
C27_Witness ==
    /\ op = "step"
    /\ turn = 2
    /\ Len(units) = 2
    /\ units[1].position = Pos(1)
    /\ units[2].position = Pos(4)
    /\ units[1].target_id = {units[2].id}
    /\ units[2].target_id = {units[1].id}

\* C28: a step() leaves a unit where it stood if the unit had no target, had
\* speed <= 0 or was not alive when the step began, and the position of
\* every unit after the step is the one the movement pass gave it.
C28_PositionFrame ==
    [][ op' = "step" =>
          \A i \in Roster :
              /\ ( \/ units[i].target_id = {}
                   \/ units[i].speed <= 0
                   \/ ~units[i].is_alive )
                    => units'[i].position = units[i].position
              /\ units'[i].position = MovementPass(units)[i].position ]_vars

\* A step() that left a dead unit where it stood, although its speed is
\* positive and its target stands farther than 20 from it.
C28_Witness ==
    /\ op = "step"
    /\ turn >= 2
    /\ \E i, j \in Roster :
          /\ ~units[i].is_alive
          /\ units[i].speed > 0
          /\ units[i].target_id = {units[j].id}
          /\ DistSq(units[i].position, units[j].position) > 20 * 20
          /\ units[i].position = Pos(0)

\* C29: a step() enqueues one damage event for a weapon, aimed at the target
\* its unit holds after the targeting pass, if the unit is alive, that target
\* is in the roster, the two stand no farther apart after the movement pass
\* than the range of the weapon, and the remaining cooldown the weapon had when
\* the step began is <= 0; it enqueues none for the weapon otherwise.  The
\* damage pass moves no unit and retargets none, so the positions and the
\* targets of those two passes are the ones of the state step() returns in.
C29_WeaponFiresIffReady ==
    [][ op' = "step" =>
          /\ Len(fired_weapons') = Len(damage_events')
          /\ \A i \in Roster :
             \A w \in 1..Len(units[i].weapons) :
                \E shots \in { {n \in 1..Len(fired_weapons') :
                                    fired_weapons'[n] = <<i, w>>} } :
                    /\ Cardinality(shots) =
                          IF /\ units[i].weapons[w].current_cooldown <= 0
                             /\ units[i].is_alive
                             /\ \E j \in Roster :
                                   /\ units'[j].id \in units'[i].target_id
                                   /\ DistSq(units'[i].position, units'[j].position)
                                         <= units[i].weapons[w].range
                                              * units[i].weapons[w].range
                          THEN 1 ELSE 0
                    /\ \A n \in shots :
                          /\ damage_events'[n].attacker = i
                          /\ damage_events'[n].target_id \in units'[i].target_id
                          /\ damage_events'[n].dtype
                                = get_damage_type(units[i].weapons[w]) ]_vars

\* A step() in which both weapons of one unit fired at the target of the
\* unit.
C29_Witness ==
    /\ op = "step"
    /\ \E i \in Roster :
       \E n, m \in 1..Len(fired_weapons) :
          /\ fired_weapons[n] = <<i, 1>>
          /\ fired_weapons[m] = <<i, 2>>
          /\ damage_events[n].target_id = damage_events[m].target_id
          /\ damage_events[n].target_id \in units[i].target_id

\* C30, as the claim has it: after a step() a weapon that fired in it holds
\* its full cooldown, a weapon that did not fire and had a positive remaining
\* cooldown holds one less, and one that did not fire and had a remaining
\* cooldown <= 0 holds what it had.
C30_FiredCooldownInForce ==
    [][ op' = "step" =>
          \A i \in Roster :
          \A w \in 1..Len(units[i].weapons) :
              LET weapon == units[i].weapons[w]
                  after == units'[i].weapons[w].current_cooldown
              IN  IF \E n \in 1..Len(fired_weapons') : fired_weapons'[n] = <<i, w>>
                  THEN after = weapon.cooldown
                  ELSE IF weapon.current_cooldown > 0
                  THEN after = weapon.current_cooldown - 1
                  ELSE after = weapon.current_cooldown ]_vars

\* C30, amended: after a step() a weapon that fired in it holds its full
\* cooldown less one, or its full cooldown if that is <= 0: the cooldown pass
\* of the same tick has already counted it down.  The weapons that did not
\* fire are as the claim has them.
C30_FiredCooldownCountedDown ==
    [][ op' = "step" =>
          \A i \in Roster :
          \A w \in 1..Len(units[i].weapons) :
              LET weapon == units[i].weapons[w]
                  after == units'[i].weapons[w].current_cooldown
              IN  IF \E n \in 1..Len(fired_weapons') : fired_weapons'[n] = <<i, w>>
                  THEN after = IF weapon.cooldown > 0 THEN weapon.cooldown - 1
                               ELSE weapon.cooldown
                  ELSE IF weapon.current_cooldown > 0
                  THEN after = weapon.current_cooldown - 1
                  ELSE after = weapon.current_cooldown ]_vars

\* A step() after which a weapon of full cooldown 3 that fired in it holds
\* 2, while a weapon of the roster that was ready and did not fire holds 0.
C30_Witness ==
    /\ op = "step"
    /\ \E i \in Roster :
       \E n \in 1..Len(fired_weapons) :
          /\ fired_weapons[n][1] = i
          /\ units[i].weapons[fired_weapons[n][2]].cooldown = 3
          /\ units[i].weapons[fired_weapons[n][2]].current_cooldown = 2
    /\ \E j \in Roster :
       \E w \in 1..Len(units[j].weapons) :
          /\ \A n \in 1..Len(fired_weapons) : fired_weapons[n] # <<j, w>>
          /\ units[j].weapons[w].current_cooldown = 0

\* The applications of the log made to the unit with this id by the events
\* before event n of the queue.
EarlierHits(log, id, n) ==
    {a \in 1..Len(log) : log[a].event < n /\ log[a].target_id = id}

\* The last of a non-empty set of positions of a log.
LastOf(hits) == CHOOSE a \in hits : \A b \in hits : b <= a

\* C31: the damage events of a tick are queued attacker by attacker in roster
\* order and weapon by weapon, and applied in that order: each event finds its
\* defender with the hp, the shields and the alive flag the last event applied
\* to it before in the same tick has left (those of the start of the tick if
\* there is none), its mitigation is computed from them, and an event that
\* finds its defender dead is not applied.  The defender ends the tick as the
\* last event applied to it has left it.
C31_EventsAppliedInOrderCumulatively ==
    [][ op' = "step" =>
          /\ \A n \in 1..(Len(fired_weapons') - 1) :
                \/ fired_weapons'[n][1] < fired_weapons'[n + 1][1]
                \/ /\ fired_weapons'[n][1] = fired_weapons'[n + 1][1]
                   /\ fired_weapons'[n][2] < fired_weapons'[n + 1][2]
          /\ \A n \in 1..Len(damage_events') :
                damage_events'[n].attacker = fired_weapons'[n][1]
          /\ \A a \in 1..(Len(applied') - 1) :
                applied'[a].event < applied'[a + 1].event
          /\ \A n \in 1..Len(damage_events') :
             \E e \in {damage_events'[n]} :
             \E t \in {IndexOf(units, e.target_id)} :
             \E earlier \in {EarlierHits(applied', e.target_id, n)} :
             \E here \in {{a \in 1..Len(applied') : applied'[a].event = n}} :
                t # 0 =>
                \E found \in {IF earlier = {}
                               THEN units[t]
                               ELSE [units[t] EXCEPT
                                       !.hp = applied'[LastOf(earlier)].hp_after,
                                       !.shields = applied'[LastOf(earlier)].shields_after,
                                       !.is_alive = ~applied'[LastOf(earlier)].destroyed]} :
                    IF found.is_alive
                    THEN /\ Cardinality(here) = 1
                         /\ \A a \in here :
                               /\ applied'[a].target_id = e.target_id
                               /\ applied'[a].hp_before = found.hp
                               /\ applied'[a].shields_before = found.shields
                               /\ applied'[a].actual_loss
                                     = mitigate_damage(found, e.amount, e.dtype)
                               /\ applied'[a].hp_after
                                     = DamagedUnit(found, e.amount, e.dtype).hp
                               /\ applied'[a].shields_after
                                     = DamagedUnit(found, e.amount, e.dtype).shields
                    ELSE here = {}
          /\ \A t \in Roster :
             \E hits \in {EarlierHits(applied', units[t].id, Len(damage_events') + 1)} :
                IF hits = {}
                THEN /\ units'[t].hp = units[t].hp
                     /\ units'[t].shields = units[t].shields
                     /\ units'[t].is_alive = units[t].is_alive
                ELSE /\ units'[t].hp = applied'[LastOf(hits)].hp_after
                     /\ units'[t].shields = applied'[LastOf(hits)].shields_after
                     /\ units'[t].is_alive = ~applied'[LastOf(hits)].destroyed ]_vars

\* A step() in which a defender was hit twice, the second hit found the hp
\* the first had left and destroyed it, and a later event of the queue aimed
\* at it was not applied.
C31_Witness ==
    /\ op = "step"
    /\ \E a, b \in 1..Len(applied) :
          /\ a < b
          /\ applied[a].target_id = applied[b].target_id
          /\ applied[a].hp_after < applied[a].hp_before
          /\ applied[b].hp_before = applied[a].hp_after
          /\ applied[b].destroyed
          /\ \E n \in 1..Len(damage_events) :
                /\ n > applied[b].event
                /\ damage_events[n].target_id = applied[b].target_id

\* The type of the weapon that fired event n of the queue.
FiredWeaponType(n) ==
    units[fired_weapons[n][1]].weapons[fired_weapons[n][2]].weapon_type

\* C32: an applied hit of a Kinetic, Fighter or Missile weapon is of damage
\* type Kinetic or Explosive, takes its whole mitigated damage from hp and
\* leaves the shields of the defender as they were, up or not; an applied hit
\* of an Energy or Beam weapon is of damage type Energy and takes its whole
\* mitigated damage from hp if the shields are 0 when it is applied, and less
\* than that if they are up.
C32_DirectToHp ==
    \A a \in 1..Len(applied) :
        LET hit == applied[a]
            w == FiredWeaponType(hit.event)
        IN  /\ w \in {"Kinetic", "Fighter", "Missile"} =>
                  /\ hit.dtype \in {"Kinetic", "Explosive"}
                  /\ hit.dtype = "Explosive" <=> w = "Missile"
                  /\ hit.shields_after = hit.shields_before
                  /\ hit.hp_before - hit.hp_applied = hit.actual_loss
            /\ w \in {"Energy", "Beam"} =>
                  /\ hit.dtype = "Energy"
                  /\ hit.shields_before = 0 =>
                        /\ hit.shields_after = 0
                        /\ hit.hp_before - hit.hp_applied = hit.actual_loss
                  /\ (hit.shields_before > 0 /\ hit.actual_loss > 0) =>
                        hit.hp_before - hit.hp_applied < hit.actual_loss
            /\ w \in {"Kinetic", "Fighter", "Missile", "Energy", "Beam"}

\* A step() in which a Kinetic, a Fighter and a Missile weapon each hit a
\* defender whose shields were up and stayed as they were, and an Energy
\* weapon hit a defender with no shields.
C32_Witness ==
    /\ op = "step"
    /\ \A w \in {"Kinetic", "Fighter", "Missile"} :
          \E a \in 1..Len(applied) :
              /\ FiredWeaponType(applied[a].event) = w
              /\ applied[a].shields_before > 0
              /\ applied[a].shields_after = applied[a].shields_before
              /\ applied[a].actual_loss > 0
              /\ applied[a].hp_before - applied[a].hp_applied = applied[a].actual_loss
    /\ \E a \in 1..Len(applied) :
          /\ FiredWeaponType(applied[a].event) = "Energy"
          /\ applied[a].shields_before = 0
          /\ applied[a].actual_loss > 0
          /\ applied[a].hp_before - applied[a].hp_applied = applied[a].actual_loss

\* C33: a hit that leaves hp <= 0 ends with hp = 0 and the alive flag false,
\* and so does the step(); in the step() after it no unit takes a unit that
\* was dead when the step began as its new target, and every living unit that
\* named a dead unit when the step began, and had a living enemy then, names a
\* living enemy of it after the targeting pass.
C33_DeadAreNoTargets ==
    [][ op' = "step" =>
          /\ \A a \in 1..Len(applied') :
                applied'[a].hp_applied <= 0 =>
                    /\ applied'[a].hp_after = 0
                    /\ applied'[a].destroyed
                    /\ \A t \in Roster :
                          units[t].id = applied'[a].target_id =>
                              units'[t].hp = 0 /\ ~units'[t].is_alive
          /\ \A i \in Roster :
                /\ units'[i].target_id # units[i].target_id =>
                      \A j \in Roster :
                          units[j].id \in units'[i].target_id => units[j].is_alive
                /\ ( /\ units[i].is_alive
                     /\ \E d \in Roster : units[d].id \in units[i].target_id
                                            /\ ~units[d].is_alive
                     /\ \E j \in Roster : Enemy(i, j) )
                   => \E j \in Roster : Enemy(i, j)
                                         /\ units'[i].target_id = {units[j].id} ]_vars

\* A step() in which a unit fired at a living enemy although a dead enemy,
\* destroyed in a tick before, is nearer to it or as near and before it in
\* the roster: the unit it fired at is the target it took when its target had
\* died.
C33_Witness ==
    /\ op = "step"
    /\ \E n \in 1..Len(damage_events) : \E j, d \in Roster :
          LET i == damage_events[n].attacker
          IN  /\ units[j].id = damage_events[n].target_id
              /\ units[i].target_id = {units[j].id}
              /\ units[d].faction_idx # units[i].faction_idx
              /\ ~units[d].is_alive
              /\ units[d].hp = 0
              /\ \A a \in 1..Len(applied) : applied[a].target_id # units[d].id
              /\ units[j].is_alive
              /\ \/ DistSq(units[i].position, units[d].position)
                       < DistSq(units[i].position, units[j].position)
                 \/ /\ DistSq(units[i].position, units[d].position)
                          = DistSq(units[i].position, units[j].position)
                    /\ d < j

\* C34: SpatialHash::build holds the id of every living unit once, in the
\* cell (floor(x / cell_size), floor(y / cell_size)) of its position and in
\* no other, and the id of no dead unit.
C34_CellIsFloor ==
    LET hash == SpatialHash_build(units, CellSize)
    IN  \A i \in Roster :
            LET held == {c \in DOMAIN hash.cells :
                            \E n \in 1..Len(hash.cells[c]) :
                                hash.cells[c][n] = units[i].id}
            IN  IF units[i].is_alive
                THEN /\ held = {<<units[i].position[1] \div CellSize,
                                  units[i].position[2] \div CellSize>>}
                     /\ \A c \in held :
                           Cardinality({n \in 1..Len(hash.cells[c]) :
                                           hash.cells[c][n] = units[i].id}) = 1
                ELSE held = {}

\* C35: every damage event of a tick whose defender is in the roster and
\* alive when the event comes up is applied, whether the unit that fired it
\* has been destroyed earlier in the same damage pass or not; and a step()
\* that leaves no unit alive returns false.
C35_PassesDoNotInterleave ==
    [][ op' = "step" =>
          /\ \A n \in 1..Len(damage_events') :
             \E t \in {IndexOf(units, damage_events'[n].target_id)} :
             \E earlier \in {EarlierHits(applied', damage_events'[n].target_id, n)} :
                ( /\ t # 0
                  /\ IF earlier = {} THEN units[t].is_alive
                     ELSE ~applied'[LastOf(earlier)].destroyed )
                => \E a \in 1..Len(applied') : applied'[a].event = n
          /\ (\A i \in Roster : ~units'[i].is_alive) =>
                ~ret' /\ LivingFactions(units') = {} ]_vars

\* A step() in which two units of different factions destroyed each other:
\* the second of them was destroyed by the hit of the first before the event
\* it had fired came up, that event was applied all the same and destroyed the
\* first, and the step() returned false with no unit alive.
C35_Witness ==
    /\ op = "step"
    /\ ~ret
    /\ \A i \in Roster : ~units[i].is_alive
    /\ \E a, b \in 1..Len(applied) :
          LET first == damage_events[applied[a].event].attacker
              second == damage_events[applied[b].event].attacker
          IN  /\ a < b
              /\ applied[a].destroyed
              /\ applied[a].target_id = units[second].id
              /\ applied[b].destroyed
              /\ applied[b].target_id = units[first].id
              /\ units[first].faction_idx # units[second].faction_idx

\* C36: a unit that is not alive stays so in every step of the engine, with
\* the hp, the shields, the position and the target_id it has; it fires no
\* damage event, and no damage event is applied to it.
C36_DeadUnitsAreInert ==
    [][ \A i \in Roster :
            ~units[i].is_alive =>
                /\ ~units'[i].is_alive
                /\ units'[i].hp = units[i].hp
                /\ units'[i].shields = units[i].shields
                /\ units'[i].position = units[i].position
                /\ units'[i].target_id = units[i].target_id
                /\ op' = "step" =>
                      /\ \A n \in 1..Len(damage_events') :
                            damage_events'[n].attacker # i
                      /\ \A a \in 1..Len(applied') :
                            applied'[a].target_id # units[i].id ]_vars

\* A step() in which a damage event was aimed at a unit that had been
\* destroyed in a tick before and was not applied, while that unit, which has
\* a speed and a target farther away than the range it closes to, has stayed
\* where it was and has fired nothing.
C36_Witness ==
    /\ op = "step"
    /\ \E d, j \in Roster :
          /\ ~units[d].is_alive
          /\ units[d].hp = 0
          /\ units[d].speed > 0
          /\ units[d].target_id = {units[j].id}
          /\ DistSq(units[d].position, units[j].position)
                > DesiredRange * DesiredRange
          /\ \A a \in 1..Len(applied) : applied[a].target_id # units[d].id
          /\ \E n \in 1..Len(damage_events) :
                damage_events[n].target_id = units[d].id
          /\ \A n \in 1..Len(damage_events) : damage_events[n].attacker # d

\* C37: in a step() a unit that has no target when the step begins stays
\* where it is, whatever target it takes in the step; a living unit with a
\* speed whose target is dead when the step begins closes in on the place of
\* that dead unit, by its speed or up to the range it closes to, and the
\* target it takes then is a living enemy nearest to the place it has moved
\* to, if it has a living enemy.
C37_MoveBeforeTargeting ==
    [][ op' = "step" =>
          \A i \in Roster :
              /\ units[i].target_id = {} => units'[i].position = units[i].position
              /\ \A d \in Roster :
                    ( /\ units[i].is_alive
                      /\ units[i].target_id = {units[d].id}
                      /\ ~units[d].is_alive )
                    => \E dist \in {Sqrt(DistSq(units[i].position, units[d].position))} :
                          /\ IF units[i].speed > 0 /\ dist > DesiredRange
                             THEN /\ units'[i].position # units[i].position
                                  /\ Sqrt(DistSq(units'[i].position, units[d].position))
                                        = dist - Min(units[i].speed, dist - DesiredRange)
                             ELSE units'[i].position = units[i].position
                          /\ (\E m \in Roster : Enemy(i, m)) =>
                                \E j \in Roster :
                                    /\ Enemy(i, j)
                                    /\ units'[i].target_id = {units[j].id}
                                    /\ \A m \in Roster :
                                          Enemy(i, m) =>
                                             DistSq(units'[i].position, units'[j].position)
                                               <= DistSq(units'[i].position,
                                                         units'[m].position) ]_vars

\* The second step() of a battle, in which a unit has left the place it was
\* deployed at and holds a living target, while an enemy that was destroyed
\* in the first step() is nearer to it, at the range a unit closes to: it has
\* moved toward the dead unit and has taken the other as target after that.
C37_Witness ==
    /\ op = "step"
    /\ turn = 2
    /\ \E i, d, j \in Roster :
          /\ units[i].is_alive
          /\ \A r \in TraceRosters : \A m \in DOMAIN r :
                r[m].id = units[i].id => r[m].position # units[i].position
          /\ ~units[d].is_alive
          /\ units[d].faction_idx # units[i].faction_idx
          /\ \A a \in 1..Len(applied) : applied[a].target_id # units[d].id
          /\ Enemy(i, j)
          /\ units[i].target_id = {units[j].id}
          /\ DistSq(units[i].position, units[d].position) = DesiredRange * DesiredRange
          /\ DistSq(units[i].position, units[j].position)
                > DistSq(units[i].position, units[d].position)

\* Weapon w of unit i is among the weapons a sequence of fired weapons holds.
FiredIn(fired, i, w) == \E n \in 1..Len(fired) : fired[n] = <<i, w>>

\* C38: for a weapon of full cooldown c >= 1, in every step(): if it fires,
\* its remaining cooldown is c - 1 when the step returns; while its remaining
\* cooldown is k > 0 it does not fire and the step leaves k - 1, so that it
\* cannot fire again before the c-th tick after the one it fired in; and if
\* its unit is alive with a living target in range, it fires exactly when its
\* remaining cooldown has run out, which for c = 1 is every tick and for a
\* weapon added by the bridge, with remaining cooldown 0, the first such tick.
\* Its remaining cooldown is never below 0 nor above c - 1 when a step
\* returns.
C38_FiringCadence ==
    [][ op' = "step" =>
          \A i \in Roster :
          \A w \in 1..Len(units[i].weapons) :
             \E c \in {units[i].weapons[w].cooldown} :
             \E k \in {units[i].weapons[w].current_cooldown} :
             \E after \in {units'[i].weapons[w].current_cooldown} :
             \E fires \in {FiredIn(fired_weapons', i, w)} :
                c >= 1 =>
                   /\ 0 <= after /\ after <= c - 1
                   /\ fires => after = c - 1
                   /\ k > 0 => ~fires /\ after = k - 1
                   /\ (op = "step" /\ c >= 2 /\ FiredIn(fired_weapons, i, w)) => ~fires
                   /\ ( /\ units[i].is_alive
                        /\ \E j \in Roster :
                              /\ units[j].is_alive
                              /\ units'[i].target_id = {units[j].id}
                              /\ DistSq(units'[i].position, units'[j].position)
                                    <= units[i].weapons[w].range
                                         * units[i].weapons[w].range )
                      => /\ fires <=> k <= 0
                         /\ c = 1 => fires
                         /\ turn = 0 => fires ]_vars

\* The third step() of a battle, in which a weapon of full cooldown 2 has
\* fired, as it did in the first, and holds a remaining cooldown of 1, and a
\* weapon of full cooldown 3 that fired in the first step() holds 0 and has
\* not fired since.
C38_Witness ==
    /\ op = "step"
    /\ turn = 3
    /\ \E i \in Roster : \E w \in 1..Len(units[i].weapons) :
          /\ units[i].weapons[w].cooldown = 2
          /\ FiredIn(fired_weapons, i, w)
          /\ units[i].weapons[w].current_cooldown = 1
    /\ \E i \in Roster : \E w \in 1..Len(units[i].weapons) :
          /\ units[i].weapons[w].cooldown = 3
          /\ ~FiredIn(fired_weapons, i, w)
          /\ units[i].weapons[w].current_cooldown = 0

\* The radius find_best_target_spatial searches for this attacker.
SearchRadius(a) == Max(MaxRange(units[a].weapons, 1), MinSearchRadius)

\* The ids a sequence of ids holds.
IdsOf(ids) == {ids[n] : n \in 1..Len(ids)}

\* C39: for every unit a of the roster and its search radius r, get_nearby
\* on the index built from the roster returns the id of every living unit
\* whose position is within r of the position of a in both coordinates; and
\* if a has a living enemy no farther than r away, find_best_target_spatial
\* returns an enemy at the distance of the one find_best_target returns.
C39_IndexMissesNoEnemyInRadius ==
    \E hash \in {SpatialHash_build(units, CellSize)} :
    \A a \in Roster :
    \E r \in {SearchRadius(a)} :
    \E nearby \in {IdsOf(get_nearby(hash, units[a].position, r))} :
        /\ \A i \in Roster :
              ( /\ units[i].is_alive
                /\ Abs(units[i].position[1] - units[a].position[1]) <= r
                /\ Abs(units[i].position[2] - units[a].position[2]) <= r )
              => units[i].id \in nearby
        /\ (\E j \in Roster :
                Enemy(a, j) /\ DistSq(units[a].position, units[j].position) <= r * r)
           => \E s \in find_best_target_spatial(units[a], units, hash) :
              \E l \in find_best_target(units[a], units) :
                 /\ IndexOf(units, s) # 0
                 /\ Enemy(a, IndexOf(units, s))
                 /\ DistSq(units[a].position, units[IndexOf(units, s)].position)
                       = DistSq(units[a].position, units[IndexOf(units, l)].position)

\* The roster a step() has left, in which a unit at negative coordinates has
\* its nearest enemy beyond the range of its weapons and within its search
\* radius, the search over the index returns that enemy, and a living unit
\* outside the square is not among the ids of the neighbourhood.
C39_Witness ==
    \E a, j, m \in Roster :
        /\ op = "step"
        /\ units[a].position[1] < 0 /\ units[a].position[2] < 0
        /\ Enemy(a, j)
        /\ DistSq(units[a].position, units[j].position)
              > MaxRange(units[a].weapons, 1) * MaxRange(units[a].weapons, 1)
        /\ DistSq(units[a].position, units[j].position)
              <= SearchRadius(a) * SearchRadius(a)
        /\ find_best_target_spatial(units[a], units,
                                    SpatialHash_build(units, CellSize)) = {units[j].id}
        /\ find_best_target(units[a], units) = {units[j].id}
        /\ units[m].is_alive
        /\ units[m].id \notin IdsOf(get_nearby(SpatialHash_build(units, CellSize),
                                                units[a].position, SearchRadius(a)))

\* C40: every call of get_causal_chain and of get_consequences returns, on
\* every graph that add_event calls have built.
C40_QueriesTerminate ==
    op \in {"get_causal_chain", "get_consequences"} => chain.returns

====
